---- MODULE Spec2Model ----
(***************************************************************************)
(* Trip_Sync: the trip REST controller, the application state store, the   *)
(* planner wizard, the navigation screen and the map service adapters,     *)
(* each as a state machine over its own variables.  Every component has    *)
(* its own next-state relation and specification (SpecTrips, SpecNav, ...) *)
(* that leaves the other components' variables unchanged.                  *)
(***************************************************************************)
EXTENDS Integers, Sequences, FiniteSets, TLC

VARIABLES
    \* ---- server: tripController.ts over the Trip collection ----
    trips,          \* the Trip collection: trip id -> document, or NoTrip
    nextTripId,     \* the next _id Trip.create hands out
    reqs,           \* in-flight updateTrip / deleteTrip requests, per connection
    tripList,       \* the response of the getTrips request being answered, or NoTripList
    \* ---- client: NavigationScreen (PlannerScreen.tsx 527-949) ----
    navPhase,           \* "init" before the screen is mounted, "mounted", then "unmounted"
    isLoaded,           \* useJsApiLoader: the map SDK is loaded
    mapRef,             \* mapRef.current is set (GoogleMap onLoad)
    tripFrom,           \* currentTrip.from
    tripTo,             \* currentTrip.to
    waypoints,          \* the waypoint sequence
    directions,         \* the DirectionsResult: the end points of legs[0].steps, and which reply it is
    tripMetrics,        \* tripMetrics, as the number of steps of the route it was read from
    currentStepIndex,   \* the step pointer
    userLocation,       \* userLocation, NoPos for null
    camera,             \* where mapRef.current.panTo last put the camera
    isAutoCentering,
    distanceToNextTurn, \* the metres shown, -1 for ''
    mapError,           \* mapError.type, "none" for null
    showAddStopModal,
    isStopsListVisible,
    isCalculatingStops,
    stopSearchResults,  \* null, or the candidates shown
    nearbyResults,      \* what the last searchNearbyPlaces resolved to (results, 600)
    watch,              \* the registered geolocation watch: the values its callback closed over
    watchIds,           \* the ids of the position watches the browser holds for the screen
    locationWatcherId,  \* locationWatcherId.current, 0 for null
    routeDirty,         \* a dependency of the Calculate Route effect changed since it last ran
    trackDirty,         \* a dependency of the Track User Location effect changed since it last ran
    pendingPos,         \* position callbacks suspended at await reverseGeocode
    pendingDir,         \* getDirections requests awaiting the provider
    pendingPlaces,      \* searchNearbyPlaces / getPlaceDetails requests awaiting the provider
    dirCalls,           \* number of getDirections calls made
    lastDirReq,         \* the arguments of the latest getDirections call
    hideTimers,         \* pending setTimeout(2500) callbacks of handleAddStopCategory
    advancedAt,         \* <<route, step>>: the step end points that have advanced the pointer
    doubleAdvance,      \* some step end point advanced the pointer a second time
    \* ---- client: PlannerScreen (PlannerScreen.tsx 14-511) ----
    step,
    destination,
    hasStayPlanned,
    stayLocation,
    selectedStayId,     \* "none" for null
    stays,              \* the stays listed, by name
    isLoadingStays,
    staysError,         \* staysError is not null
    nearbyAttractions,  \* the attractions listed, by name
    isLoadingAttractions,
    attractionsError,   \* attractionsError is not null
    locationError,      \* which message is shown, "none" for null
    isFetchingLocation,
    locReq,             \* where handleDestinationNext is suspended: "none", "position", "geocode"
    activePlannerInput, \* "none" for null
    blurTimers,         \* pending setTimeout(150) callbacks of the destination input's onBlur
    placeFetches,       \* searchNearbyPlaces calls of fetchStays / fetchAttractions in flight
    isListeningFor,     \* "none" for null
    recognitionRef,     \* recognitionRef.current: a session number, 0 for null
    micPermissionError, \* which message is shown, "none" for null
    permPending,        \* handleVoiceSearch calls suspended at await getUserMedia, by field
    sessions,           \* the SpeechRecognition objects created, in order: field and state
    destTimer,          \* the pending setTimeout(300) of the destination prediction effect
    stayTimer,          \* the pending setTimeout(300) of the stay prediction effect
    predFetches,        \* getPlacePredictions calls of the two effects in flight
    destinationPredictions, \* the predictions shown, by the query they answer
    stayPredictions,
    lastPredQuery,      \* per field, the query of the latest request issued
    \* ---- client: AppContext saved routes (AppContext.tsx 26, 62-69, 105-123) ----
    screen,             \* the screen last set through setScreen (AppContext.tsx 22)
    alerts,             \* the alert() calls of the store's catch blocks so far
    savedRoutes,
    nextRouteId,        \* the id the server gives the next saved route
    routeReqs,          \* addRoute / removeRoute requests awaiting the server
    tgLog,              \* the first pair toggled: the saved pairs before, and what followed
    \* ---- map service: getPlacePredictions (part_000 34-56, 256-288) ----
    googleDefined,      \* typeof google !== 'undefined'
    predPhase,          \* "idle", "awaiting" the provider, "returned"
    predImpl,           \* which adapter was called: "http" or "sdk"
    predInput,          \* the input of the call, a sequence of characters
    predSent,           \* provider requests the call has issued
    predResult,         \* what the call resolved to
    adapterCalls,       \* calls of the map service in progress: operation, adapter, state, value
    \* ---- client: AppContext user and vehicles (AppContext.tsx 23-30, 97-103, 224-312) ----
    user,               \* the user profile with its two vehicle collections, or NoUser
    pendingSignup,      \* TRUE once handleSignup has kept the phone and password
    profileSetupData,   \* the vehicle counts kept by startProfileSetup, or NoSetupData
    signupReqs,         \* POST /auth/signup requests awaiting the server
    clock,              \* Date.now(), in milliseconds from the start
    \* ---- client: AppContext navigation and trips (AppContext.tsx 27-35, 141-221, 314-317) ----
    currentTripDetails, \* the navigation context, or NoDetails
    isNavigating,
    navigationOrigin,
    navigationDestination, \* "" for null
    tripPosts,          \* POST /trips requests of addTrip awaiting the server
    appTrips,           \* the trips list of the store, newest first
    fetchReqs,          \* GET /trips and GET /saved-routes requests awaiting the server
    tripDeletes,        \* DELETE /trips/:id requests of removeTrip awaiting the server
    nextAppTripId,      \* the _id the server gives to the next trip it creates
    \* ---- map service: calculateDistance (part_000 197-210, 246-254) ----
    distCall            \* the calls of calculateDistance being compared, or NoDistCall

tripsVars == <<trips, nextTripId, reqs, tripList>>

navVars == <<navPhase, isLoaded, mapRef, tripFrom, tripTo, waypoints, directions, tripMetrics,
             currentStepIndex, userLocation, camera, isAutoCentering, distanceToNextTurn,
             mapError, showAddStopModal, isStopsListVisible, isCalculatingStops, stopSearchResults, nearbyResults,
             watch,
             routeDirty, trackDirty, pendingPos, pendingDir, pendingPlaces, dirCalls,
             lastDirReq, hideTimers, advancedAt, doubleAdvance, watchIds,
             locationWatcherId>>

plannerVars == <<step, destination, hasStayPlanned, stayLocation, selectedStayId, stays,
                 isLoadingStays, staysError, nearbyAttractions, isLoadingAttractions,
                 attractionsError, locationError, isFetchingLocation, locReq,
                 activePlannerInput, blurTimers, placeFetches, isListeningFor, recognitionRef,
                 micPermissionError, permPending, sessions, destTimer, stayTimer,
                 predFetches, destinationPredictions, stayPredictions, lastPredQuery,
                 screen, alerts, savedRoutes, nextRouteId, routeReqs, tgLog>>

predVars == <<googleDefined, predPhase, predImpl, predInput, predSent, predResult,
              adapterCalls>>

accountVars == <<user, pendingSignup, profileSetupData, signupReqs, clock,
                 currentTripDetails, isNavigating, navigationOrigin, navigationDestination,
                 tripPosts, appTrips, fetchReqs, tripDeletes, nextAppTripId>>

geoVars == <<distCall>>

\* The navigation state of the store, which the account handlers leave alone.
journey == <<currentTripDetails, isNavigating, navigationOrigin, navigationDestination,
             tripPosts, appTrips, tripDeletes, nextAppTripId>>

\* Groups of navigation state that most handlers leave alone together.
mapView == <<mapRef, camera, isAutoCentering>>
stepState == <<distanceToNextTurn, currentStepIndex, advancedAt, doubleAdvance>>
routeFx == <<dirCalls, lastDirReq, pendingDir>>
stopUi == <<showAddStopModal, isStopsListVisible, isCalculatingStops, stopSearchResults,
            nearbyResults, pendingPlaces, hideTimers>>

\* Groups of planner state that most handlers leave alone together.
plannerCore == <<step, destination, hasStayPlanned, selectedStayId, stays, isLoadingStays,
                 staysError, nearbyAttractions, isLoadingAttractions, attractionsError,
                 placeFetches>>
locState == <<locationError, isFetchingLocation, locReq>>
focusState == <<activePlannerInput, blurTimers>>
voiceState == <<isListeningFor, recognitionRef, micPermissionError, permPending, sessions>>
suggestState == <<destTimer, stayTimer, predFetches, destinationPredictions, stayPredictions,
                  lastPredQuery>>
routeStore == <<savedRoutes, nextRouteId, routeReqs, tgLog>>

vars == <<tripsVars, navVars, plannerVars, predVars, accountVars, geoVars>>

\* What each component's actions leave unchanged: the other components.
tripsOthers == <<navVars, plannerVars, predVars, accountVars, geoVars>>
navOthers == <<tripsVars, plannerVars, predVars, accountVars, geoVars>>
plannerOthers == <<tripsVars, navVars, predVars, accountVars, geoVars>>
predOthers == <<tripsVars, navVars, plannerVars, accountVars, geoVars>>
accountOthers == <<tripsVars, navVars, predVars, stayLocation, plannerCore, locState,
                   focusState, voiceState, suggestState, routeStore, geoVars>>
geoOthers == <<tripsVars, navVars, plannerVars, predVars, accountVars>>

\* What the handlers of the store's user, trips and saved routes leave alone.
sessionOthers == <<tripsVars, navVars, predVars, geoVars, pendingSignup, profileSetupData,
                   signupReqs, clock, currentTripDetails, isNavigating, navigationOrigin,
                   navigationDestination, tripPosts, stayLocation, plannerCore, locState,
                   focusState, voiceState, suggestState, nextRouteId, routeReqs, tgLog,
                   alerts, tripDeletes, nextAppTripId>>

(***************************************************************************)
(* Server: src/server/src/controllers/tripController.ts                    *)
(* The document store is taken to answer every query (the catch branches   *)
(* that answer 500 on a store fault are outside this model).               *)
(***************************************************************************)

\* Bound: how many trips Trip.create may create in a behaviour of updates and deletes.
MaxTrips == 1
\* Bound: how many trips Trip.create may create in one behaviour at all.
MaxTripIds == 3

Users == {"u1", "u2"}
Conns == {"c1", "c2"}
TripIds == 1..MaxTripIds
NoTrip == [userId |-> "none"]
Absent == "absent"

\* The fields of a Trip document that the model follows (models/Trip.ts).
Origins == {"Pune", "Goa"}
Statuses == {"planned", "completed"}
TripDocs == [userId : Users, origin : Origins, status : Statuses]

\* A request body: every field is optional.
Bodies == [userId : Users \cup {Absent}, origin : {Absent, "Goa"}, status : {Absent, "completed"}]
NoBody == [userId |-> Absent, origin |-> Absent, status |-> Absent]

IdleReq == [pc |-> "idle", op |-> "none", caller |-> "none", id |-> 0, body |-> NoBody, res |-> 0]

\* Trip.findById(req.params.id)
findById(id) == trips[id]

\* A faulty variant of isOwner: the ownership test left out.
isOwnerUnchecked(trip, caller) == TRUE

\* trip.userId.toString() !== req.user._id.toString(), negated
isOwner(trip, caller) == trip.userId = caller

\* Trip.findByIdAndUpdate(id, body, {new: true}): the fields the body names are set
findByIdAndUpdate(doc, body) ==
    [userId |-> IF body.userId = Absent THEN doc.userId ELSE body.userId,
     origin |-> IF body.origin = Absent THEN doc.origin ELSE body.origin,
     status |-> IF body.status = Absent THEN doc.status ELSE body.status]

\* createTrip: Trip.create({userId: req.user._id, ...req.body fields}); status defaults to planned
createTrip(caller, origin) ==
    /\ nextTripId \in TripIds
    /\ trips' = [trips EXCEPT ![nextTripId] = [userId |-> caller, origin |-> origin, status |-> "planned"]]
    /\ nextTripId' = nextTripId + 1
    /\ UNCHANGED <<reqs, tripList, tripsOthers>>

\* The part of updateTrip / deleteTrip up to the second await: load the trip, 404 when
\* it is missing, 401 when the caller is not its owner, else go on to the write.
loadAndAuthorize(c, op, caller, id, body) ==
    /\ reqs[c].pc = "idle"
    /\ LET trip == findById(id)
           r == [pc |-> "idle", op |-> op, caller |-> caller, id |-> id, body |-> NoBody, res |-> 0]
       IN  reqs' = [reqs EXCEPT ![c] =
                IF trip = NoTrip THEN [IdleReq EXCEPT !.op = op, !.res = 404]
                ELSE IF ~isOwner(trip, caller) THEN [r EXCEPT !.res = 401]
                ELSE [r EXCEPT !.pc = "authorized", !.body = body]]
    /\ UNCHANGED <<trips, nextTripId, tripList, tripsOthers>>

updateTrip(c, caller, id, body) == loadAndAuthorize(c, "update", caller, id, body)

deleteTrip(c, caller, id) == loadAndAuthorize(c, "delete", caller, id, NoBody)

\* updateTrip after the ownership test: findByIdAndUpdate and res.json(updatedTrip)
updateTripWrite(c) ==
    /\ reqs[c].pc = "authorized" /\ reqs[c].op = "update"
    /\ LET id == reqs[c].id
       IN  trips' = IF trips[id] = NoTrip THEN trips
                    ELSE [trips EXCEPT ![id] = findByIdAndUpdate(trips[id], reqs[c].body)]
    /\ reqs' = [reqs EXCEPT ![c] = [IdleReq EXCEPT !.op = "update", !.res = 200]]
    /\ UNCHANGED <<nextTripId, tripList, tripsOthers>>

\* deleteTrip after the ownership test: trip.deleteOne() and res.json('Trip removed')
deleteTripWrite(c) ==
    /\ reqs[c].pc = "authorized" /\ reqs[c].op = "delete"
    /\ trips' = [trips EXCEPT ![reqs[c].id] = NoTrip]
    /\ reqs' = [reqs EXCEPT ![c] = [IdleReq EXCEPT !.op = "delete", !.res = 200]]
    /\ UNCHANGED <<nextTripId, tripList, tripsOthers>>

\* timestamps: true (Trip.ts 40-42): createdAt is the time of Trip.create; the ids of
\* the model are handed out in the order of creation.
createdAt(id) == id

\* A faulty variant of matchesUserId: find({}) without the userId filter.
matchesAnyUser(trip, caller) == trip # NoTrip

\* The filter { userId: req.user._id } of Trip.find (49)
matchesUserId(trip, caller) == trip.userId = caller

\* .sort({ createdAt: -1 }) (49): the ids of a set of trips, the newest first
RECURSIVE sortByCreatedAtDesc(_)
sortByCreatedAtDesc(ids) ==
    IF ids = {} THEN <<>>
    ELSE LET newest == CHOOSE i \in ids : \A j \in ids : createdAt(j) <= createdAt(i)
         IN  <<newest>> \o sortByCreatedAtDesc(ids \ {newest})

NoTripList == [caller |-> "none", list |-> <<>>]

\* getTrips (47-54): Trip.find({ userId }).sort({ createdAt: -1 }) and res.json(trips)
getTrips(caller) ==
    /\ tripList = NoTripList
    /\ tripList' = [caller |-> caller,
                    list |-> sortByCreatedAtDesc({i \in TripIds : matchesUserId(trips[i], caller)})]
    /\ UNCHANGED <<trips, nextTripId, reqs, tripsOthers>>

\* The response of getTrips has been sent.
TripListSent ==
    /\ tripList # NoTripList
    /\ tripList' = NoTripList
    /\ UNCHANGED <<trips, nextTripId, reqs, tripsOthers>>

TripsInit ==
    /\ trips = [i \in TripIds |-> NoTrip]
    /\ nextTripId = 1
    /\ reqs = [c \in Conns |-> IdleReq]
    /\ tripList = NoTripList

\* C1: a caller that is not the owner of the trip it names gets 401 from updateTrip and
\* from deleteTrip, whatever the body, and the request leaves the collection as it was.
C1_NonOwnerRejected ==
    [][\A c \in Conns :
        (/\ reqs[c].pc = "idle"
         /\ reqs'[c] # reqs[c]
         /\ reqs'[c].id \in TripIds
         /\ trips[reqs'[c].id] # NoTrip
         /\ trips[reqs'[c].id].userId # reqs'[c].caller)
        => (reqs'[c].res = 401 /\ reqs'[c].pc = "idle" /\ trips' = trips)]_vars

\* C1 witness: an update and a delete by a non-owner were both answered 401 and the
\* trips they named are still stored, owned by someone else.
C1_Witness ==
    \E c, d \in Conns :
        /\ reqs[c].op = "update" /\ reqs[c].res = 401
        /\ reqs[d].op = "delete" /\ reqs[d].res = 401
        /\ reqs[c].id \in TripIds /\ reqs[d].id \in TripIds
        /\ trips[reqs[c].id] # NoTrip /\ trips[reqs[c].id].userId # reqs[c].caller
        /\ trips[reqs[d].id] # NoTrip /\ trips[reqs[d].id].userId # reqs[d].caller
(***************************************************************************)
(* Client: NavigationScreen, src/client/src/screens/planner/PlannerScreen  *)
(* .tsx 527-949, over the SDK map service (src/unnamed/part_000 241-410).  *)
(*                                                                         *)
(* React: a setState call changes the state at once in this model; the     *)
(* effects whose dependencies changed run at the next commit.  A handler   *)
(* of a user event (click, drag) is committed in the same step; state set  *)
(* from a callback or after an await (position callback, provider reply,   *)
(* timer) is committed by the later step Flush, so a callback that fires   *)
(* before it still holds the values of the previous render.                *)
(*                                                                         *)
(* Geography: every modelled point lies on the meridian lng = 0 and a      *)
(* unit of latitude is the angle of 20 metres, so the great-circle         *)
(* distance of two points is 20 * |lat1 - lat2| metres.                    *)
(***************************************************************************)

\* Bound: the largest latitude of a device position.
MaxPos == 1
\* Bound: the step pointer is not advanced past this value.
MaxStepIndex == 3
\* Bound: getDirections calls in one behaviour.
MaxDirCalls == 2
\* Bound: position callbacks suspended at reverseGeocode at one time.
MaxPendingPos == 2
\* Bound: searchNearbyPlaces / getPlaceDetails requests in flight at one time.
MaxPendingPlaces == 1
\* Bound: pending setTimeout callbacks that hide the stops list.
MaxTimers == 1
\* Bound: the length of the waypoint sequence.
MaxWaypoints == 2

\* dist < 40 (PlannerScreen.tsx 732)
ProximityThreshold == 40

CL == "Current Location"
UnknownLocation == "Unknown Location"
NoPos == 0 - 1
Positions == 0..MaxPos
\* stopSearchResults: null, or the list of candidates
NullResults == [isNull |-> TRUE, items |-> <<>>]
Results(items) == [isNull |-> FALSE, items |-> items]

\* What the directions provider may answer: the end latitudes of legs[0].steps.
Routes == {<<0, 3>>, <<0, 1, 5>>}
NullDirections == [steps |-> <<>>, ver |-> 0]
\* What the geocoder may answer (reverseGeocode resolves to the sentinel on failure).
Addresses == {"MG Road", UnknownLocation}
\* The trip a caller may mount the screen with.
TripFroms == {CL, "18,73"}
TripTos == {"Goa", ""}
\* Places the provider knows, with their latitude.
Places == {"fuelA", "fuelB"}
PlaceLat == [p \in Places |-> IF p = "fuelA" THEN 2 ELSE 0]

\* A location handed to the directions provider: free text or a coordinate pair.
StringLoc(t) == [kind |-> "string", text |-> t, lat |-> 0, lng |-> 0]
CoordLoc(la, ln) == [kind |-> "coord", text |-> "", lat |-> la, lng |-> ln]
UndefinedLoc == [kind |-> "undefined", text |-> "", lat |-> 0, lng |-> 0]
NoDirReq == [origin |-> UndefinedLoc, dest |-> UndefinedLoc, waypoints |-> <<>>]

Abs(x) == IF x < 0 THEN 0 - x ELSE x

RemoveAt(q, k) == [i \in 1..(Len(q) - 1) |-> IF i < k THEN q[i] ELSE q[i + 1]]

\* calculateDistance of the SDK map service: 0 when the SDK is not loaded, else
\* computeDistanceBetween (on the meridian: 20 metres per unit of latitude).
calculateDistance(lat1, lng1, lat2, lng2) ==
    IF ~isLoaded THEN 0 ELSE 20 * Abs(lat1 - lat2)

\* getRouteLocation: undefined for '', the string itself for 'Current Location' and
\* for free text, a coordinate pair for text that matches coordinateRegex.
getRouteLocation(locationString) ==
    IF locationString = "" THEN UndefinedLoc
    ELSE IF locationString = CL THEN StringLoc(locationString)
    ELSE IF locationString = "18,73" THEN CoordLoc(18, 73)
    ELSE StringLoc(locationString)

\* resolveLoc inside fetchRoute: the coordinate pair, else the string itself
resolveLoc(loc) ==
    LET coord == getRouteLocation(loc)
    IN  IF coord.kind = "coord" THEN coord ELSE StringLoc(loc)

Closure(auto, dir, idx, from) == [auto |-> auto, dir |-> dir, idx |-> idx, from |-> from]
NoWatch == [auto |-> FALSE, dir |-> NullDirections, idx |-> 0 - 1, from |-> ""]

\* The guard of the Calculate Route effect (line 655), given that its dependencies changed.
routeEffectRuns(changed, loaded, from, to) == changed /\ loaded /\ from # "" /\ to # ""

\* A faulty variant of routeRequest: the waypoints are not handed to the provider.
routeRequestWithoutStops(from, to, wps) ==
    [origin |-> resolveLoc(from), dest |-> resolveLoc(to), waypoints |-> <<>>]

\* The arguments fetchRoute passes to getDirections.
routeRequest(from, to, wps) == [origin |-> resolveLoc(from), dest |-> resolveLoc(to), waypoints |-> wps]

\* navigator.geolocation.watchPosition (704): registers a watch and returns its id, one
\* that no watch held by the browser has.
watchPosition(held) == CHOOSE id \in 1..(Cardinality(held) + 1) : id \notin held

\* Faulty variant of the cleanup: the previous watch is left registered.
clearWatchSkipped(held, id) == held

\* The cleanup of the Track User Location effect (745-747):
\* if (locationWatcherId.current !== null) clearWatch(locationWatcherId.current)
clearWatch(held, id) == IF id # 0 THEN held \ {id} ELSE held

\* A commit: the Calculate Route effect (654-695) and the Track User Location effect
\* (698-748) run when their dependencies changed, with the values of this render.
Commit(loaded, from, to, wps, auto, dir, idx, routeChanged, trackChanged) ==
    /\ IF routeEffectRuns(routeChanged, loaded, from, to)
       THEN /\ dirCalls' = dirCalls + 1
            /\ lastDirReq' = routeRequest(from, to, wps)
            /\ pendingDir' = Append(pendingDir, [seq |-> dirCalls + 1, req |-> routeRequest(from, to, wps)])
       ELSE UNCHANGED <<dirCalls, lastDirReq, pendingDir>>
    /\ watch' = IF trackChanged THEN Closure(auto, dir, idx, from) ELSE watch
    /\ IF trackChanged
       THEN LET kept == clearWatch(watchIds, locationWatcherId)
            IN  /\ locationWatcherId' = watchPosition(kept)
                /\ watchIds' = kept \cup {watchPosition(kept)}
       ELSE UNCHANGED <<watchIds, locationWatcherId>>
    /\ routeDirty' = FALSE
    /\ trackDirty' = FALSE

\* Room for the getDirections call that a change of the route effect's inputs leads to.
RouteBudget == routeDirty \/ dirCalls < MaxDirCalls

\* Mounting with tripDetails: the first render and its effects.
Mount(from, to, loaded) ==
    /\ navPhase = "init"
    /\ navPhase' = "mounted"
    /\ isLoaded' = loaded
    /\ tripFrom' = from
    /\ tripTo' = to
    /\ Commit(loaded, from, to, waypoints, isAutoCentering, directions, currentStepIndex, TRUE, TRUE)
    /\ UNCHANGED <<waypoints, directions, tripMetrics, userLocation, mapError, pendingPos, mapView,
                       stepState, stopUi, navOthers>>

\* useJsApiLoader reports the SDK loaded.
ScriptLoaded ==
    /\ navPhase = "mounted" /\ ~isLoaded /\ RouteBudget
    /\ isLoaded' = TRUE
    /\ routeDirty' = TRUE
    /\ UNCHANGED <<navPhase, tripFrom, tripTo, waypoints, directions, tripMetrics, userLocation,
                       mapError, watch, trackDirty, pendingPos, watchIds, locationWatcherId,
                       mapView, stepState, routeFx, stopUi, navOthers>>

\* GoogleMap onLoad (557-559)
onLoad ==
    /\ navPhase = "mounted" /\ isLoaded /\ ~mapRef
    /\ mapRef' = TRUE
    /\ UNCHANGED <<navPhase, isLoaded, tripFrom, tripTo, waypoints, directions, tripMetrics,
                       userLocation, mapError, watch, routeDirty, trackDirty, pendingPos,
                       watchIds, locationWatcherId, camera, isAutoCentering, stepState, routeFx,
                       stopUi, navOthers>>

\* The commit of state that was set outside a user event.
Flush ==
    /\ navPhase = "mounted" /\ (routeDirty \/ trackDirty)
    /\ Commit(isLoaded, tripFrom, tripTo, waypoints, isAutoCentering, directions,
              currentStepIndex, routeDirty, trackDirty)
    /\ UNCHANGED <<navPhase, isLoaded, tripFrom, tripTo, waypoints, directions, tripMetrics,
                       userLocation, mapError, pendingPos, mapView, stepState, stopUi,
                       navOthers>>

\* steps[currentStepIndex] of the directions the callback closed over exists
hasStep(c) == c.dir.steps # <<>> /\ c.idx + 1 <= Len(c.dir.steps)

\* calculateDistance(newPos, step.end_location)
distToStepEnd(pos, c) == calculateDistance(pos, 0, c.dir.steps[c.idx + 1], 0)

\* dist < 40 && currentStepIndex < steps.length - 1 (732)
shouldAdvance(pos, c) ==
    /\ hasStep(c)
    /\ distToStepEnd(pos, c) < ProximityThreshold
    /\ c.idx < Len(c.dir.steps) - 1

\* A faulty variant of nextStepIndex: the pointer set from the index the callback closed over.
nextStepIndexFromClosure(prev, closed) == closed + 1

\* setCurrentStepIndex(prev => prev + 1) (733)
nextStepIndex(prev, closed) == prev + 1

\* "Simulate Turn-by-Turn Progress" (723-736) for position pos, in a callback that
\* closed over c.
TurnByTurn(pos, c) ==
    /\ distanceToNextTurn' = IF hasStep(c) THEN distToStepEnd(pos, c) ELSE distanceToNextTurn
    /\ currentStepIndex' = IF shouldAdvance(pos, c) THEN nextStepIndex(currentStepIndex, c.idx)
                           ELSE currentStepIndex
    /\ trackDirty' = (trackDirty \/ shouldAdvance(pos, c))
    /\ advancedAt' = IF shouldAdvance(pos, c) THEN advancedAt \cup {<<c.dir.ver, c.idx>>}
                     ELSE advancedAt
    /\ doubleAdvance' = (doubleAdvance \/ (shouldAdvance(pos, c) /\ <<c.dir.ver, c.idx>> \in advancedAt))

\* The watchPosition success callback (705-737) for a new position, up to its first
\* await: to its end when the origin it closed over is not 'Current Location'.
PositionUpdate(pos) ==
    /\ navPhase = "mounted" /\ watch # NoWatch
    /\ currentStepIndex < MaxStepIndex
    /\ userLocation' = pos
    /\ camera' = IF watch.auto /\ mapRef THEN pos ELSE camera
    /\ IF watch.from = CL
       THEN /\ Len(pendingPos) < MaxPendingPos
            /\ pendingPos' = Append(pendingPos, [pos |-> pos, c |-> watch])
            /\ UNCHANGED <<stepState, trackDirty>>
       ELSE /\ TurnByTurn(pos, watch)
            /\ UNCHANGED pendingPos
    /\ UNCHANGED <<navPhase, isLoaded, tripFrom, tripTo, waypoints, directions, tripMetrics,
                       mapError, watch, routeDirty, watchIds, locationWatcherId, mapRef,
                       isAutoCentering, routeFx, stopUi, navOthers>>

\* The rest of a suspended position callback, when reverseGeocode has resolved to addr
\* (713-736): the address becomes currentTrip.from, then the turn-by-turn part runs.
ReverseGeocodeReply(k, addr) ==
    /\ navPhase = "mounted" /\ k \in 1..Len(pendingPos)
    /\ currentStepIndex < MaxStepIndex
    /\ (addr # tripFrom) => RouteBudget
    /\ tripFrom' = addr
    /\ routeDirty' = (routeDirty \/ addr # tripFrom)
    /\ TurnByTurn(pendingPos[k].pos, pendingPos[k].c)
    /\ pendingPos' = RemoveAt(pendingPos, k)
    /\ UNCHANGED <<navPhase, isLoaded, tripTo, waypoints, directions, tripMetrics, userLocation,
                       mapError, watch, watchIds, locationWatcherId, mapView, routeFx, stopUi,
                       navOthers>>

\* The watchPosition error callback (738-741)
PositionError(code) ==
    /\ navPhase = "mounted" /\ watch # NoWatch
    /\ mapError' = IF code = 1 THEN "permission" ELSE mapError
    /\ UNCHANGED <<navPhase, isLoaded, tripFrom, tripTo, waypoints, directions, tripMetrics,
                       userLocation, watch, routeDirty, trackDirty, pendingPos, watchIds,
                       locationWatcherId, mapView, stepState, routeFx, stopUi, navOthers>>

\* getDirections resolves (678-691): a route, or null (<<>>) when the provider fails.
DirectionsReply(k, result) ==
    /\ navPhase = "mounted" /\ k \in 1..Len(pendingDir)
    /\ IF result # <<>>
       THEN /\ directions' = [steps |-> result, ver |-> pendingDir[k].seq]
            /\ mapError' = "none"
            /\ tripMetrics' = Len(result)
            /\ trackDirty' = TRUE
       ELSE /\ mapError' = "generic"
            /\ UNCHANGED <<directions, tripMetrics, trackDirty>>
    /\ pendingDir' = RemoveAt(pendingDir, k)
    /\ UNCHANGED <<navPhase, isLoaded, tripFrom, tripTo, waypoints, userLocation, watch,
                       routeDirty, pendingPos, watchIds, locationWatcherId, mapView, stepState,
                       dirCalls, lastDirReq, stopUi, navOthers>>

\* GoogleMap onDragStart (861), an event of the map that onLoad has handed over: a user
\* event, committed at once.
onDragStart ==
    /\ navPhase = "mounted" /\ isLoaded /\ mapRef
    /\ isAutoCentering' = FALSE
    /\ Commit(isLoaded, tripFrom, tripTo, waypoints, FALSE, directions, currentStepIndex,
              routeDirty, trackDirty \/ isAutoCentering)
    /\ UNCHANGED <<navPhase, isLoaded, tripFrom, tripTo, waypoints, directions, tripMetrics,
                       userLocation, mapError, pendingPos, mapRef, camera, stepState, stopUi,
                       navOthers>>

\* recenterMap (579-585), behind the recenter control shown while auto-centering is off.
recenterMap ==
    /\ navPhase = "mounted" /\ isLoaded /\ ~isAutoCentering
    /\ IF mapRef /\ userLocation # NoPos
       THEN /\ camera' = userLocation
            /\ isAutoCentering' = TRUE
            /\ Commit(isLoaded, tripFrom, tripTo, waypoints, TRUE, directions, currentStepIndex,
                      routeDirty, TRUE)
       ELSE UNCHANGED <<camera, isAutoCentering, routeFx, watch, watchIds,
                        locationWatcherId, routeDirty, trackDirty>>
    /\ UNCHANGED <<navPhase, isLoaded, tripFrom, tripTo, waypoints, directions, tripMetrics,
                       userLocation, mapError, pendingPos, mapRef, stepState, stopUi,
                       navOthers>>

\* The 'Add Stop' button, shown while there is no waypoint (930-941).
openAddStopModal ==
    /\ navPhase = "mounted" /\ isLoaded /\ Len(waypoints) = 0 /\ ~showAddStopModal
    /\ showAddStopModal' = TRUE
    /\ UNCHANGED <<navPhase, isLoaded, tripFrom, tripTo, waypoints, directions, tripMetrics,
                       userLocation, mapError, watch, routeDirty, trackDirty, pendingPos,
                       watchIds, locationWatcherId, mapView, stepState, routeFx,
                       isStopsListVisible, isCalculatingStops, stopSearchResults, nearbyResults,
                       pendingPlaces, hideTimers, navOthers>>

\* AddStopModal onClose (761)
closeAddStopModal ==
    /\ navPhase = "mounted" /\ showAddStopModal
    /\ showAddStopModal' = FALSE
    /\ UNCHANGED <<navPhase, isLoaded, tripFrom, tripTo, waypoints, directions, tripMetrics,
                       userLocation, mapError, watch, routeDirty, trackDirty, pendingPos,
                       watchIds, locationWatcherId, mapView, stepState, routeFx,
                       isStopsListVisible, isCalculatingStops, stopSearchResults, nearbyResults,
                       pendingPlaces, hideTimers, navOthers>>

\* handleAddStopCategory (588-600) up to await searchNearbyPlaces(keyword, userLocation)
handleAddStopCategory ==
    /\ navPhase = "mounted" /\ showAddStopModal
    /\ showAddStopModal' = FALSE
    /\ IF userLocation = NoPos
       THEN /\ mapError' = "generic"
            /\ UNCHANGED <<isCalculatingStops, isStopsListVisible, stopSearchResults, pendingPlaces>>
       ELSE /\ Len(pendingPlaces) < MaxPendingPlaces
            /\ isCalculatingStops' = TRUE
            /\ isStopsListVisible' = TRUE
            /\ stopSearchResults' = NullResults
            /\ pendingPlaces' = Append(pendingPlaces, [kind |-> "nearby", at |-> userLocation])
            /\ UNCHANGED mapError
    /\ UNCHANGED <<navPhase, isLoaded, tripFrom, tripTo, waypoints, directions, tripMetrics,
                       userLocation, watch, routeDirty, trackDirty, pendingPos, watchIds,
                       locationWatcherId, mapView, stepState, routeFx, nearbyResults,
                       hideTimers, navOthers>>

\* One candidate of the stops list: the place with its distance from the position the
\* search was started at (603-619).
withDistance(place, at) == [place |-> place, distance |-> calculateDistance(at, 0, PlaceLat[place], 0)]

\* Array.prototype.sort((a, b) => a.distance.value - b.distance.value): stable insertion.
RECURSIVE insertByDistance(_, _)
insertByDistance(x, sorted) ==
    IF sorted = <<>> THEN <<x>>
    ELSE IF x.distance < Head(sorted).distance THEN <<x>> \o sorted
    ELSE <<Head(sorted)>> \o insertByDistance(x, Tail(sorted))

\* A faulty variant of sortByDistance: the candidates stay in the provider's order.
sortByDistanceSkipped(q) == q

RECURSIVE sortByDistance(_)
sortByDistance(q) ==
    IF q = <<>> THEN <<>>
    ELSE insertByDistance(q[Len(q)], sortByDistance(SubSeq(q, 1, Len(q) - 1)))

\* handleAddStopCategory after searchNearbyPlaces has resolved to results (602-627)
NearbyPlacesReply(k, results) ==
    /\ navPhase = "mounted" /\ k \in 1..Len(pendingPlaces) /\ pendingPlaces[k].kind = "nearby"
    /\ IF Len(results) > 0
       THEN /\ stopSearchResults' = Results(sortByDistance(
                    [i \in 1..Len(results) |-> withDistance(results[i], pendingPlaces[k].at)]))
            /\ UNCHANGED <<mapError, hideTimers>>
       ELSE /\ mapError' = "generic"
            /\ hideTimers < MaxTimers
            /\ hideTimers' = hideTimers + 1
            /\ UNCHANGED stopSearchResults
    /\ isCalculatingStops' = FALSE
    /\ nearbyResults' = results
    /\ pendingPlaces' = RemoveAt(pendingPlaces, k)
    /\ UNCHANGED <<navPhase, isLoaded, tripFrom, tripTo, waypoints, directions, tripMetrics,
                       userLocation, watch, routeDirty, trackDirty, pendingPos, watchIds,
                       locationWatcherId, mapView, stepState, routeFx, showAddStopModal,
                       isStopsListVisible, navOthers>>

\* The setTimeout(2500) callback of handleAddStopCategory (625)
HideStopsTimer ==
    /\ navPhase = "mounted" /\ hideTimers > 0
    /\ hideTimers' = hideTimers - 1
    /\ isStopsListVisible' = FALSE
    /\ mapError' = "none"
    /\ UNCHANGED <<navPhase, isLoaded, tripFrom, tripTo, waypoints, directions, tripMetrics,
                       userLocation, watch, routeDirty, trackDirty, pendingPos, watchIds,
                       locationWatcherId, mapView, stepState, routeFx, showAddStopModal,
                       isCalculatingStops, stopSearchResults, nearbyResults, pendingPlaces,
                       navOthers>>

\* StopsListModal onClose (767)
closeStopsList ==
    /\ navPhase = "mounted" /\ isStopsListVisible
    /\ isStopsListVisible' = FALSE
    /\ UNCHANGED <<navPhase, isLoaded, tripFrom, tripTo, waypoints, directions, tripMetrics,
                       userLocation, mapError, watch, routeDirty, trackDirty, pendingPos,
                       watchIds, locationWatcherId, mapView, stepState, routeFx,
                       showAddStopModal, isCalculatingStops, stopSearchResults, nearbyResults,
                       pendingPlaces, hideTimers, navOthers>>

\* A faulty variant of appendWaypoint: the earlier waypoints are dropped.
appendWaypointAlone(prev, loc) == <<[location |-> loc, stopover |-> TRUE]>>

\* The updater of setWaypoints in handleSelectStop (635) and handlePlaceSelect (645):
\* prev => [...prev, { location: loc, stopover: true }]
appendWaypoint(prev, loc) == Append(prev, [location |-> loc, stopover |-> TRUE])

\* handleSelectStop (630-638) on the i-th candidate shown: a user event, committed at once.
handleSelectStop(i) ==
    /\ navPhase = "mounted" /\ isStopsListVisible /\ ~stopSearchResults.isNull
    /\ i \in 1..Len(stopSearchResults.items)
    /\ Len(waypoints) < MaxWaypoints /\ RouteBudget
    /\ waypoints' = appendWaypoint(waypoints, stopSearchResults.items[i].place)
    /\ isStopsListVisible' = FALSE
    /\ stopSearchResults' = NullResults
    /\ Commit(isLoaded, tripFrom, tripTo, waypoints', isAutoCentering, directions,
              currentStepIndex, TRUE, trackDirty)
    /\ UNCHANGED <<navPhase, isLoaded, tripFrom, tripTo, directions, tripMetrics, userLocation,
                       mapError, pendingPos, mapView, stepState, showAddStopModal,
                       isCalculatingStops, nearbyResults, pendingPlaces, hideTimers, navOthers>>

\* handlePlaceSelect (640-643) up to await getPlaceDetails(placeId)
handlePlaceSelect(placeId) ==
    /\ navPhase = "mounted" /\ showAddStopModal
    /\ Len(pendingPlaces) < MaxPendingPlaces
    /\ showAddStopModal' = FALSE
    /\ pendingPlaces' = Append(pendingPlaces, [kind |-> "details", at |-> placeId])
    /\ UNCHANGED <<navPhase, isLoaded, tripFrom, tripTo, waypoints, directions, tripMetrics,
                       userLocation, mapError, watch, routeDirty, trackDirty, pendingPos,
                       watchIds, locationWatcherId, mapView, stepState, routeFx,
                       isStopsListVisible, isCalculatingStops, stopSearchResults, nearbyResults,
                       hideTimers, navOthers>>

\* handlePlaceSelect after getPlaceDetails has resolved (644-648): found, or null
PlaceDetailsReply(k, found) ==
    /\ navPhase = "mounted" /\ k \in 1..Len(pendingPlaces) /\ pendingPlaces[k].kind = "details"
    /\ IF found
       THEN /\ Len(waypoints) < MaxWaypoints /\ RouteBudget
            /\ waypoints' = appendWaypoint(waypoints, pendingPlaces[k].at)
            /\ routeDirty' = TRUE
            /\ UNCHANGED mapError
       ELSE /\ mapError' = "generic"
            /\ UNCHANGED <<waypoints, routeDirty>>
    /\ pendingPlaces' = RemoveAt(pendingPlaces, k)
    /\ UNCHANGED <<navPhase, isLoaded, tripFrom, tripTo, directions, tripMetrics, userLocation,
                       watch, trackDirty, pendingPos, watchIds, locationWatcherId, mapView,
                       stepState, routeFx, showAddStopModal, isStopsListVisible,
                       isCalculatingStops, stopSearchResults, nearbyResults, hideTimers,
                       navOthers>>

\* handleRemoveStop (651), behind the button shown while there is a waypoint: a user
\* event, committed at once.
handleRemoveStop ==
    /\ navPhase = "mounted" /\ isLoaded /\ Len(waypoints) > 0 /\ RouteBudget
    /\ waypoints' = <<>>
    /\ Commit(isLoaded, tripFrom, tripTo, <<>>, isAutoCentering, directions, currentStepIndex,
              TRUE, trackDirty)
    /\ UNCHANGED <<navPhase, isLoaded, tripFrom, tripTo, directions, tripMetrics, userLocation,
                       mapError, pendingPos, mapView, stepState, stopUi, navOthers>>

\* The 'Dismiss' button of the map error overlay (892-900)
dismissMapError ==
    /\ navPhase = "mounted" /\ mapError \notin {"none", "permission"}
    /\ mapError' = "none"
    /\ UNCHANGED <<navPhase, isLoaded, tripFrom, tripTo, waypoints, directions, tripMetrics,
                       userLocation, watch, routeDirty, trackDirty, pendingPos, watchIds,
                       locationWatcherId, mapView, stepState, routeFx, stopUi, navOthers>>

\* Unmounting (END TRIP, 943): the map's onUnmount clears mapRef (561-563), the cleanup
\* of the Track User Location effect clears the watch (745-747); what is still awaited
\* can no longer change the screen.
Unmount ==
    /\ navPhase = "mounted"
    /\ navPhase' = "unmounted"
    /\ mapRef' = FALSE
    /\ watch' = NoWatch
    /\ watchIds' = clearWatch(watchIds, locationWatcherId)
    /\ UNCHANGED locationWatcherId
    /\ pendingPos' = <<>>
    /\ pendingDir' = <<>>
    /\ pendingPlaces' = <<>>
    /\ hideTimers' = 0
    /\ UNCHANGED <<isLoaded, tripFrom, tripTo, waypoints, directions, tripMetrics, userLocation,
                       mapError, routeDirty, trackDirty, camera, isAutoCentering, stepState,
                       dirCalls, lastDirReq, showAddStopModal, isStopsListVisible,
                       isCalculatingStops, stopSearchResults, nearbyResults, navOthers>>

NavInit ==
    /\ navPhase = "init"
    /\ isLoaded = FALSE
    /\ mapRef = FALSE
    /\ tripFrom = ""
    /\ tripTo = ""
    /\ waypoints = <<>>
    /\ directions = NullDirections
    /\ tripMetrics = 0
    /\ currentStepIndex = 0
    /\ userLocation = NoPos
    /\ camera = NoPos
    /\ isAutoCentering = TRUE
    /\ distanceToNextTurn = 0 - 1
    /\ mapError = "none"
    /\ showAddStopModal = FALSE
    /\ isStopsListVisible = FALSE
    /\ isCalculatingStops = FALSE
    /\ stopSearchResults = NullResults
    /\ nearbyResults = <<>>
    /\ watch = NoWatch
    /\ watchIds = {}
    /\ locationWatcherId = 0
    /\ routeDirty = FALSE
    /\ trackDirty = FALSE
    /\ pendingPos = <<>>
    /\ pendingDir = <<>>
    /\ pendingPlaces = <<>>
    /\ dirCalls = 0
    /\ lastDirReq = NoDirReq
    /\ hideTimers = 0
    /\ advancedAt = {}
    /\ doubleAdvance = FALSE

\* What searchNearbyPlaces may resolve to: the provider's places in the provider's order.
PlaceLists == {<<>>, <<"fuelB">>, <<"fuelA", "fuelB">>}

\* The navigation screen's position tracking, map view and route calculation.
NextNav ==
    \/ \E f \in TripFroms, t \in TripTos, l \in BOOLEAN : Mount(f, t, l)
    \/ ScriptLoaded
    \/ onLoad
    \/ Flush
    \/ \E pos \in Positions : PositionUpdate(pos)
    \/ \E k \in 1..MaxPendingPos, a \in Addresses : ReverseGeocodeReply(k, a)
    \/ \E code \in 1..3 : PositionError(code)
    \/ \E k \in 1..MaxDirCalls, r \in Routes \cup {<<>>} : DirectionsReply(k, r)
    \/ onDragStart
    \/ recenterMap
    \/ dismissMapError
    \/ Unmount

\* The navigation screen's route calculation with the stops a user adds and removes.
NextStops ==
    \/ \E f \in TripFroms, t \in TripTos, l \in BOOLEAN : Mount(f, t, l)
    \/ ScriptLoaded
    \/ Flush
    \/ \E pos \in Positions : PositionUpdate(pos)
    \/ \E k \in 1..MaxPendingPos, a \in Addresses : ReverseGeocodeReply(k, a)
    \/ \E k \in 1..MaxDirCalls, r \in Routes \cup {<<>>} : DirectionsReply(k, r)
    \/ openAddStopModal
    \/ closeAddStopModal
    \/ \E p \in Places : handlePlaceSelect(p)
    \/ \E k \in 1..MaxPendingPlaces, f \in BOOLEAN : PlaceDetailsReply(k, f)
    \/ handleRemoveStop
    \/ Unmount

\* The navigation screen's search for stops of a category near the user.
NextSearch ==
    \/ \E f \in TripFroms, t \in TripTos, l \in BOOLEAN : Mount(f, t, l)
    \/ ScriptLoaded
    \/ Flush
    \/ \E pos \in Positions : PositionUpdate(pos)
    \/ \E k \in 1..MaxPendingPos, a \in Addresses : ReverseGeocodeReply(k, a)
    \/ openAddStopModal
    \/ closeAddStopModal
    \/ handleAddStopCategory
    \/ \E k \in 1..MaxPendingPlaces, r \in PlaceLists : NearbyPlacesReply(k, r)
    \/ HideStopsTimer
    \/ closeStopsList
    \/ \E i \in 1..Cardinality(Places) : handleSelectStop(i)
    \/ dismissMapError
    \/ Unmount


\* The waypoint sequence of the navigation screen under every handler that sets it:
\* stops chosen from the nearby list, places chosen in the add-stop search, and removal.
NextWaypoints ==
    \/ \E f \in TripFroms, t \in TripTos, l \in BOOLEAN : Mount(f, t, l)
    \/ ScriptLoaded
    \/ Flush
    \/ \E pos \in Positions : PositionUpdate(pos)
    \/ openAddStopModal
    \/ handleAddStopCategory
    \/ \E k \in 1..MaxPendingPlaces, r \in PlaceLists : NearbyPlacesReply(k, r)
    \/ \E i \in 1..Cardinality(Places) : handleSelectStop(i)
    \/ \E p \in Places : handlePlaceSelect(p)
    \/ \E k \in 1..MaxPendingPlaces, f \in BOOLEAN : PlaceDetailsReply(k, f)
    \/ handleRemoveStop
    \/ Unmount
\* C2: over any sequence of position updates, also of updates whose callbacks run before
\* the component has re-rendered, currentStepIndex never decreases and grows by at most
\* one in each step.
C2_StepIndexMonotone ==
    [][currentStepIndex' >= currentStepIndex /\ currentStepIndex' <= currentStepIndex + 1]_vars

\* C2 witness: the pointer has been advanced twice, one step at a time, by callbacks that
\* were registered while it was still 0 and ran before the effect registered a new one.
C2_Witness ==
    /\ navPhase = "mounted" /\ currentStepIndex = 2
    /\ watch # NoWatch /\ watch.idx = 0 /\ trackDirty

\* C3 (as the specification states it): the pointer is incremented at most once for the end point of
\* one step of one route, however many updates arrive within 40 metres of that end point.
C3_OncePerStepEnd == ~doubleAdvance

\* C9 (as the specification states it): a step that handles a position update, the callback up to
\* its await or the rest of it after the geocoder's reply, leaves currentTrip.from,
\* currentTrip.to and the waypoints as they were, makes no directions request and does not
\* make the Calculate Route effect due.
C9_PositionLeavesRouteInputs ==
    [][(navPhase = "mounted" /\ navPhase' = "mounted"
        /\ (userLocation' # userLocation \/ pendingPos' # pendingPos))
       => (UNCHANGED <<tripFrom, tripTo, waypoints, dirCalls>> /\ routeDirty' = routeDirty)]_vars

\* C10: while the screen is mounted with the SDK loaded and origin and destination set,
\* the commit of a change of the origin, the destination or the waypoints makes exactly one
\* getDirections request, with the new origin, destination and waypoints; no request is
\* made otherwise; and when no commit is outstanding the latest request is the one for
\* the current values.
C10_RouteRecomputed ==
    [][LET changed == <<isLoaded, tripFrom, tripTo, waypoints>>' # <<isLoaded, tripFrom, tripTo, waypoints>>
           due == routeDirty \/ changed
           ready == navPhase' = "mounted" /\ isLoaded' /\ tripFrom' # "" /\ tripTo' # ""
           issued == /\ dirCalls' = dirCalls + 1
                     /\ Len(pendingDir') = Len(pendingDir) + 1
                     /\ pendingDir'[Len(pendingDir')].req = lastDirReq'
                     /\ lastDirReq'.origin = resolveLoc(tripFrom')
                     /\ lastDirReq'.dest = resolveLoc(tripTo')
                     /\ lastDirReq'.waypoints = waypoints'
       IN  /\ (due /\ ready /\ ~routeDirty') => issued
           /\ (dirCalls' # dirCalls) => (due /\ ready /\ issued)
           /\ (changed /\ ready) => (issued \/ routeDirty')
           /\ (ready /\ ~routeDirty') =>
                  /\ lastDirReq'.origin = resolveLoc(tripFrom')
                  /\ lastDirReq'.dest = resolveLoc(tripTo')
                  /\ lastDirReq'.waypoints = waypoints']_vars

\* C10 witness: a stop was appended after the first route request and the request that
\* followed carries it.
C10_Witness ==
    /\ navPhase = "mounted" /\ dirCalls = 2 /\ ~routeDirty
    /\ Len(waypoints) = 1 /\ lastDirReq.waypoints = waypoints

(***************************************************************************)
(* Client: PlannerScreen, src/client/src/screens/planner/PlannerScreen.tsx *)
(* 14-511, with the saved routes of AppContext.tsx.                        *)
(*                                                                         *)
(* Every handler of this screen reads state through the render it was      *)
(* created in and no callback outlives a render with a value it closed     *)
(* over (onresult closes over its field only), so a step of this component *)
(* is a handler or a continuation together with the render and the effects *)
(* that follow it.                                                         *)
(***************************************************************************)

\* Bound: searchNearbyPlaces calls of the planner's effects in flight at one time.
MaxPlaceFetches == 2
\* Bound: pending onBlur timers.
MaxBlurTimers == 1
\* Bound: handleVoiceSearch calls suspended at getUserMedia at one time.
MaxPermPending == 2
\* Bound: SpeechRecognition objects created in one behaviour.
MaxSessions == 2
\* Bound: saved-route requests in flight at one time.
MaxRouteReqs == 2
\* Bound: saved routes the server creates in one behaviour.
MaxRouteId == 3
\* Bound: alert() calls of the store in one behaviour.
MaxAlerts == 2

\* Bound: getPlacePredictions calls of the prediction effects in flight at one time.
MaxPredFetches == 2
\* The prediction effects ask for predictions when the text has more than 2 characters
\* (`destination.length > 2`, 52; `stayLocation.length > 2`, 65).
SuggestMinLen == 2

\* What a user types as destination, what a recogniser hears, what a user types as stay.
DestTexts == {"", "Goa"}
Transcripts == {"Pune"}
StayTexts == {"", "Resort"}
\* What a text search for lodging and for attractions may resolve to.
StayLists == {<<>>, <<"Hotel">>, <<"Inn">>}
AttractionLists == {<<>>, <<"Fort", "Lake">>}
Fields == {"destination", "stay"}

\* The call resolveDestinationCoords(dest) makes: searchNearbyPlaces(dest) (83)
CoordsRequest(kind, dest) ==
    [for |-> kind, stage |-> "coords", keyword |-> dest, located |-> FALSE, radius |-> 0]

\* searchNearbyPlaces(`hotels and resorts`, destCoords || undefined, 5000) (116) and
\* searchNearbyPlaces(`tourist attractions`, destCoords || undefined, 5000) (150)
SearchRequest(kind, found) ==
    [for |-> kind, stage |-> "search",
     keyword |-> IF kind = "stays" THEN "hotels and resorts" ELSE "tourist attractions",
     located |-> found, radius |-> 5000]

\* Array.prototype.find / some over a sequence of names
Has(list, x) == \E i \in 1..Len(list) : list[i] = x

\* stayName (231): the stay typed, or the name of the selected stay, "" for undefined
stayName ==
    IF hasStayPlanned THEN stayLocation
    ELSE IF selectedStayId # "none" /\ Has(stays, selectedStayId) THEN selectedStayId
    ELSE ""

\* A faulty variant of depsChanged: an effect without its dependency array.
depsAlways(old, new) == TRUE

\* React's comparison of an effect's dependency array with that of the previous render
depsChanged(old, new) == old # new

\* A setTimeout(fetchPredictions, 300) (59, 73) with the values its callback closes
\* over: activePlannerInput, destination and, for the stay effect, stayLocation.
DebounceTimer(active, dest, stay) == [on |-> TRUE, active |-> active, dest |-> dest, stay |-> stay]
NoTimer == [on |-> FALSE, active |-> "none", dest |-> "", stay |-> ""]

\* Faulty variant: effects without the cleanup (60, 74), so that a pending timer stays.
PredictionEffectsNoCleanup ==
    /\ destTimer' = IF depsChanged(<<destination, activePlannerInput>>,
                                    <<destination', activePlannerInput'>>) /\ ~destTimer.on
                    THEN DebounceTimer(activePlannerInput', destination', "")
                    ELSE destTimer
    /\ stayTimer' = IF depsChanged(<<stayLocation, activePlannerInput, destination>>,
                                    <<stayLocation', activePlannerInput', destination'>>)
                          /\ ~stayTimer.on
                    THEN DebounceTimer(activePlannerInput', destination', stayLocation')
                    ELSE stayTimer

\* The prediction effects (50-61, 63-75) in the render that follows a step: when a
\* dependency has changed, the cleanup clears the pending timer and the effect sets a
\* new one.
PredictionEffects ==
    /\ destTimer' = IF depsChanged(<<destination, activePlannerInput>>,
                                    <<destination', activePlannerInput'>>)
                    THEN DebounceTimer(activePlannerInput', destination', "")
                    ELSE destTimer
    /\ stayTimer' = IF depsChanged(<<stayLocation, activePlannerInput, destination>>,
                                    <<stayLocation', activePlannerInput', destination'>>)
                    THEN DebounceTimer(activePlannerInput', destination', stayLocation')
                    ELSE stayTimer

\* The render after a handler has set step, hasStayPlanned, destination and
\* selectedStayId to the given values, with the effects fetchStays (107-140) and
\* fetchAttractions (142-171) up to their first await.
PlannerCommit(step1, has1, dest1, sel1) ==
    LET staysDue == depsChanged(<<step, hasStayPlanned, destination>>, <<step1, has1, dest1>>)
        staysWanted == step1 = 2 /\ ~has1 /\ dest1 # ""
        runStays == staysDue /\ staysWanted /\ dest1 # CL
        clearStays == staysDue /\ ~staysWanted /\ step1 < 2
        attrDue == depsChanged(<<step, destination>>, <<step1, dest1>>)
        runAttr == attrDue /\ step1 = 3 /\ dest1 # "" /\ dest1 # CL
    IN  /\ (runStays \/ runAttr) => Len(placeFetches) < MaxPlaceFetches
        /\ step' = step1
        /\ hasStayPlanned' = has1
        /\ destination' = dest1
        /\ selectedStayId' = IF runStays THEN "none" ELSE sel1
        /\ stays' = IF runStays \/ clearStays THEN <<>> ELSE stays
        /\ staysError' = IF runStays \/ clearStays THEN FALSE ELSE staysError
        /\ isLoadingStays' = IF runStays THEN TRUE ELSE isLoadingStays
        /\ nearbyAttractions' = IF runAttr THEN <<>> ELSE nearbyAttractions
        /\ attractionsError' = IF runAttr THEN FALSE ELSE attractionsError
        /\ isLoadingAttractions' = IF runAttr THEN TRUE ELSE isLoadingAttractions
        /\ placeFetches' = IF runStays THEN Append(placeFetches, CoordsRequest("stays", dest1))
                           ELSE IF runAttr THEN Append(placeFetches, CoordsRequest("attractions", dest1))
                           ELSE placeFetches

\* The destination input's onChange (450)
setDestination(text) ==
    /\ step = 1 /\ text # destination
    /\ PlannerCommit(step, hasStayPlanned, text, selectedStayId)
    /\ UNCHANGED <<stayLocation, screen, alerts, locState, focusState, voiceState, routeStore,
                       predFetches, destinationPredictions, stayPredictions, lastPredQuery,
                       plannerOthers>>
    /\ PredictionEffects

\* handleDestinationFocus (209-214)
handleDestinationFocus ==
    /\ step = 1 /\ activePlannerInput # "destination"
    /\ PlannerCommit(step, hasStayPlanned, IF destination = CL THEN "" ELSE destination, selectedStayId)
    /\ activePlannerInput' = "destination"
    /\ UNCHANGED <<stayLocation, screen, alerts, locState, blurTimers, voiceState, routeStore,
                       predFetches, destinationPredictions, stayPredictions, lastPredQuery,
                       plannerOthers>>
    /\ PredictionEffects

\* The destination input's onBlur (452-455)
handleDestinationBlur ==
    /\ step = 1 /\ activePlannerInput = "destination" /\ blurTimers < MaxBlurTimers
    /\ PlannerCommit(step, hasStayPlanned, IF destination = "" THEN CL ELSE destination, selectedStayId)
    /\ blurTimers' = blurTimers + 1
    /\ UNCHANGED <<stayLocation, screen, alerts, locState, activePlannerInput, voiceState,
                       routeStore, predFetches, destinationPredictions, stayPredictions,
                       lastPredQuery, plannerOthers>>
    /\ PredictionEffects

\* The setTimeout(150) callback of onBlur (454)
BlurTimer ==
    /\ blurTimers > 0
    /\ blurTimers' = blurTimers - 1
    /\ activePlannerInput' = "none"
    /\ UNCHANGED <<stayLocation, screen, alerts, plannerCore, locState, voiceState, routeStore,
                       predFetches, destinationPredictions, stayPredictions, lastPredQuery,
                       plannerOthers>>
    /\ PredictionEffects

\* A faulty variant of destinationGiven: any destination will do.
destinationAny(dest) == TRUE

\* else if (destination) (204)
destinationGiven(dest) == dest # ""

\* A faulty variant of nextDisabled: the button stays enabled while the location is fetched.
nextDisabledWhileEmpty(dest, fetching) == dest = ""

\* disabled={!destination || isFetchingLocation} of the Next button (481)
nextDisabled(dest, fetching) == dest = "" \/ fetching

\* handleDestinationNext (174-207) up to its first await, from the Next button (480-481,
\* disabled while !destination || isFetchingLocation) or from onRetry of the location
\* error (490-492); geo says whether navigator.geolocation exists.
handleDestinationNext(geo) ==
    /\ step = 1
    /\ ~nextDisabled(destination, isFetchingLocation) \/ locationError # "none"
    /\ IF destination = CL
       THEN /\ IF geo
               THEN /\ locReq = "none"
                    /\ locReq' = "position"
                    /\ isFetchingLocation' = TRUE
                    /\ locationError' = "none"
               ELSE /\ locationError' = "generic"
                    /\ isFetchingLocation' = FALSE
                    /\ UNCHANGED locReq
            /\ UNCHANGED plannerCore
       ELSE /\ locationError' = "none"
            /\ PlannerCommit(IF destinationGiven(destination) THEN 2 ELSE step, hasStayPlanned,
                             destination, selectedStayId)
            /\ UNCHANGED <<isFetchingLocation, locReq>>
    /\ UNCHANGED <<stayLocation, screen, alerts, focusState, voiceState, routeStore, suggestState,
                       plannerOthers>>

\* getCurrentPosition answers (182-184): code 0 for a position, else the error's code
GetCurrentPositionReply(code) ==
    /\ locReq = "position"
    /\ IF code = 0
       THEN /\ locReq' = "geocode"
            /\ UNCHANGED <<locationError, isFetchingLocation>>
       ELSE /\ locReq' = "none"
            /\ locationError' = CASE code = 1 -> "denied" [] code = 2 -> "unavailable"
                                  [] code = 3 -> "timeout" [] OTHER -> "generic"
            /\ isFetchingLocation' = FALSE
    /\ UNCHANGED <<stayLocation, screen, alerts, plannerCore, focusState, voiceState, routeStore,
                       suggestState, plannerOthers>>

\* A faulty variant of addressResolved: whatever the geocoder answers is an address.
addressAccepted(address) == TRUE

\* address && address !== "Unknown Location" (188)
addressResolved(address) == address # "" /\ address # UnknownLocation

\* reverseGeocode answers (187-203)
PlannerGeocodeReply(address) ==
    /\ locReq = "geocode"
    /\ locReq' = "none"
    /\ isFetchingLocation' = FALSE
    /\ IF addressResolved(address)
       THEN /\ PlannerCommit(2, hasStayPlanned, address, selectedStayId)
            /\ UNCHANGED locationError
       ELSE /\ locationError' = "generic"
            /\ UNCHANGED plannerCore
    /\ UNCHANGED <<stayLocation, screen, alerts, focusState, voiceState, routeStore, predFetches,
                       destinationPredictions, stayPredictions, lastPredQuery, plannerOthers>>
    /\ PredictionEffects

\* onCancel of the location error (493-498)
cancelLocationError ==
    /\ step = 1 /\ locationError # "none"
    /\ locationError' = "none"
    /\ PlannerCommit(step, hasStayPlanned, IF destination = CL THEN "" ELSE destination, selectedStayId)
    /\ UNCHANGED <<stayLocation, screen, alerts, isFetchingLocation, locReq, focusState,
                       voiceState, routeStore, predFetches, destinationPredictions,
                       stayPredictions, lastPredQuery, plannerOthers>>
    /\ PredictionEffects

\* The 'Have you planned your stay?' toggle (359)
toggleStayPlanned ==
    /\ step = 2
    /\ PlannerCommit(step, ~hasStayPlanned, destination, selectedStayId)
    /\ UNCHANGED <<stayLocation, screen, alerts, locState, focusState, voiceState, routeStore,
                       suggestState, plannerOthers>>

\* The stay input's onChange (371)
setStayLocation(text) ==
    /\ step = 2 /\ hasStayPlanned /\ text # stayLocation
    /\ stayLocation' = text
    /\ UNCHANGED <<screen, alerts, plannerCore, locState, focusState, voiceState, routeStore,
                       predFetches, destinationPredictions, stayPredictions, lastPredQuery,
                       plannerOthers>>
    /\ PredictionEffects

\* The Select button of a listed stay (416)
selectStay(i) ==
    /\ step = 2 /\ ~hasStayPlanned /\ i \in 1..Len(stays)
    /\ PlannerCommit(step, hasStayPlanned, destination, stays[i])
    /\ UNCHANGED <<stayLocation, screen, alerts, locState, focusState, voiceState, routeStore,
                       suggestState, plannerOthers>>

\* A faulty variant of stayInfoGiven: the early returns of handleStayInfoNext left out.
stayInfoNotRequired(has, stay, sel) == TRUE

\* The two early returns of handleStayInfoNext (217-218), which are also the disabled
\* condition of the Find Places button (426), negated.
stayInfoGiven(has, stay, sel) ==
    /\ ~(has /\ stay = "")
    /\ ~(~has /\ sel = "none")

\* handleStayInfoNext (216-220), behind the Find Places button (426)
handleStayInfoNext ==
    /\ step = 2
    /\ stayInfoGiven(hasStayPlanned, stayLocation, selectedStayId)
    /\ PlannerCommit(3, hasStayPlanned, destination, selectedStayId)
    /\ UNCHANGED <<stayLocation, screen, alerts, locState, focusState, voiceState, routeStore,
                       suggestState, plannerOthers>>

\* completeAndGoHome (222-229)
completeAndGoHome ==
    /\ step = 3
    /\ stayLocation' = ""
    /\ PlannerCommit(1, FALSE, CL, "none")
    /\ screen' = "Home"
    /\ UNCHANGED <<alerts, locState, focusState, voiceState, routeStore, predFetches,
                       destinationPredictions, stayPredictions, lastPredQuery, plannerOthers>>
    /\ PredictionEffects

\* resolveDestinationCoords resolves (79-91), to a location (found) or to null, and
\* fetchStays / fetchAttractions goes on to its search (116, 150).
CoordsReply(k, found) ==
    /\ k \in 1..Len(placeFetches) /\ placeFetches[k].stage = "coords"
    /\ placeFetches' = [placeFetches EXCEPT ![k] = SearchRequest(placeFetches[k].for, found)]
    /\ UNCHANGED <<stayLocation, screen, alerts, step, destination, hasStayPlanned, selectedStayId,
                       stays, isLoadingStays, staysError, nearbyAttractions,
                       isLoadingAttractions, attractionsError, locState, focusState, voiceState,
                       routeStore, suggestState, plannerOthers>>

\* The search of fetchStays (118-130) or of fetchAttractions (152-164) resolves.
SearchReply(k, results) ==
    /\ k \in 1..Len(placeFetches) /\ placeFetches[k].stage = "search"
    /\ results \in (IF placeFetches[k].for = "stays" THEN StayLists ELSE AttractionLists)
    /\ IF placeFetches[k].for = "stays"
       THEN /\ stays' = IF results # <<>> THEN results ELSE stays
            /\ staysError' = IF results # <<>> THEN staysError ELSE TRUE
            /\ isLoadingStays' = FALSE
            /\ UNCHANGED <<nearbyAttractions, attractionsError, isLoadingAttractions>>
       ELSE /\ nearbyAttractions' = IF results # <<>> THEN results ELSE nearbyAttractions
            /\ attractionsError' = IF results # <<>> THEN attractionsError ELSE TRUE
            /\ isLoadingAttractions' = FALSE
            /\ UNCHANGED <<stays, staysError, isLoadingStays>>
    /\ placeFetches' = RemoveAt(placeFetches, k)
    /\ UNCHANGED <<stayLocation, screen, alerts, step, destination, hasStayPlanned, selectedStayId,
                       locState, focusState, voiceState, routeStore, suggestState,
                       plannerOthers>>


\* ---- autocomplete: the prediction effects (50-75) and the lists they fill ----

\* What a user types into the destination field while suggestions are looked up.
SuggestTexts == {"Go", "Goa", "Goal"}

\* The query of fetchPredictions: the destination (53), or the stay location with the
\* destination as context (67).
predictionQuery(field, t) ==
    IF field = "destination" THEN t.dest
    ELSE t.stay \o (IF t.dest # "" THEN " near " \o t.dest ELSE "")

\* The test of fetchPredictions (52, 65) on the values the timer's callback closed over.
predictionsWanted(field, t) ==
    IF field = "destination"
    THEN t.active = "destination" /\ Len(t.dest) > SuggestMinLen /\ t.dest # CL
    ELSE t.active = "stay" /\ Len(t.stay) > SuggestMinLen

\* The setTimeout(300) callback fetchPredictions of a field's effect, up to its await of
\* getPlacePredictions (51-53, 64-67), or its else branch (56, 70).
PredictionTimer(field) ==
    LET t == IF field = "destination" THEN destTimer ELSE stayTimer
    IN  /\ t.on
        /\ IF field = "destination"
           THEN destTimer' = NoTimer /\ UNCHANGED stayTimer
           ELSE stayTimer' = NoTimer /\ UNCHANGED destTimer
        /\ IF predictionsWanted(field, t)
           THEN /\ Len(predFetches) < MaxPredFetches
                /\ predFetches' = Append(predFetches, [field |-> field, query |-> predictionQuery(field, t)])
                /\ lastPredQuery' = [lastPredQuery EXCEPT ![field] = predictionQuery(field, t)]
                /\ UNCHANGED <<destinationPredictions, stayPredictions>>
           ELSE /\ IF field = "destination"
                   THEN destinationPredictions' = <<>> /\ UNCHANGED stayPredictions
                   ELSE stayPredictions' = <<>> /\ UNCHANGED destinationPredictions
                /\ UNCHANGED <<predFetches, lastPredQuery>>
        /\ UNCHANGED <<stayLocation, screen, alerts, plannerCore, locState, focusState, voiceState,
                       routeStore, plannerOthers>>

\* The predictions the provider has for a query: one place, which a field's list shows
\* by its description.
Predicted(field, query) ==
    <<[for |-> query, description |-> IF field = "destination" THEN "Goa" ELSE "Resort"]>>

\* getPlacePredictions resolves (53-54, 67-68): to the predictions for its query, or to
\* [] when the provider fails.
PredictionsResolved(k, ok) ==
    /\ k \in 1..Len(predFetches)
    /\ LET results == IF ok THEN Predicted(predFetches[k].field, predFetches[k].query) ELSE <<>>
       IN  IF predFetches[k].field = "destination"
           THEN destinationPredictions' = results /\ UNCHANGED stayPredictions
           ELSE stayPredictions' = results /\ UNCHANGED destinationPredictions
    /\ predFetches' = RemoveAt(predFetches, k)
    /\ UNCHANGED <<stayLocation, screen, alerts, plannerCore, locState, focusState, voiceState,
                       routeStore, destTimer, stayTimer, lastPredQuery, plannerOthers>>

\* The stay input's onFocus (372)
handleStayFocus ==
    /\ step = 2 /\ hasStayPlanned /\ activePlannerInput # "stay"
    /\ activePlannerInput' = "stay"
    /\ UNCHANGED <<stayLocation, screen, alerts, plannerCore, locState, blurTimers, voiceState,
                       routeStore, predFetches, destinationPredictions, stayPredictions,
                       lastPredQuery, plannerOthers>>
    /\ PredictionEffects

\* The stay input's onBlur (373)
handleStayBlur ==
    /\ step = 2 /\ hasStayPlanned /\ activePlannerInput = "stay" /\ blurTimers < MaxBlurTimers
    /\ blurTimers' = blurTimers + 1
    /\ UNCHANGED <<stayLocation, screen, alerts, plannerCore, locState, activePlannerInput,
                       voiceState, routeStore, suggestState, plannerOthers>>

\* onSelect of the destination's PredictionsList (468-475): the description of the
\* prediction chosen becomes the destination.
selectDestinationPrediction ==
    /\ step = 1 /\ activePlannerInput = "destination" /\ destinationPredictions # <<>>
    /\ PlannerCommit(step, hasStayPlanned, destinationPredictions[1].description, selectedStayId)
    /\ activePlannerInput' = "none"
    /\ UNCHANGED <<stayLocation, screen, alerts, locState, blurTimers, voiceState, routeStore,
                       predFetches, destinationPredictions, stayPredictions, lastPredQuery,
                       plannerOthers>>
    /\ PredictionEffects

\* onSelect of the stay's PredictionsList (386-393)
selectStayPrediction ==
    /\ step = 2 /\ hasStayPlanned /\ activePlannerInput = "stay" /\ stayPredictions # <<>>
    /\ stayLocation' = stayPredictions[1].description
    /\ activePlannerInput' = "none"
    /\ UNCHANGED <<screen, alerts, plannerCore, locState, blurTimers, voiceState, routeStore,
                       predFetches, destinationPredictions, stayPredictions, lastPredQuery,
                       plannerOthers>>
    /\ PredictionEffects
\* ---- voice search: handleVoiceSearch (245-301) and the callbacks it installs ----

Session(field, state) == [field |-> field, state |-> state]

\* The sessions that recognition.start() was called on and that have not ended.
LiveSessions == {i \in 1..Len(sessions) : sessions[i].state # "ended"}

\* The microphone button of a field is on screen (460-466 at step 1, 378-384 at step 2).
micShown(field) ==
    \/ field = "destination" /\ step = 1
    \/ field = "stay" /\ step = 2 /\ hasStayPlanned

\* handleVoiceSearch (245-270) up to await getUserMedia; supported says whether the
\* browser has SpeechRecognition.
handleVoiceSearch(field, supported) ==
    /\ micShown(field)
    /\ IF isListeningFor # "none"
       THEN /\ sessions' = IF recognitionRef # 0 /\ sessions[recognitionRef].state # "ended"
                           THEN [sessions EXCEPT ![recognitionRef].state = "stopping"]
                           ELSE sessions
            /\ UNCHANGED <<micPermissionError, permPending>>
       ELSE IF ~supported
       THEN /\ micPermissionError' = "unsupported"
            /\ UNCHANGED <<sessions, permPending>>
       ELSE /\ Len(permPending) < MaxPermPending
            /\ micPermissionError' = "none"
            /\ permPending' = Append(permPending, field)
            /\ UNCHANGED sessions
    /\ UNCHANGED <<stayLocation, screen, alerts, plannerCore, locState, focusState, isListeningFor,
                       recognitionRef, routeStore, suggestState, plannerOthers>>

\* getUserMedia answers (260-300): granted, or the name of the error it rejects with;
\* when granted the session is created, made current and started.
GetUserMediaReply(k, outcome) ==
    /\ k \in 1..Len(permPending)
    /\ permPending' = RemoveAt(permPending, k)
    /\ IF outcome = "granted"
       THEN /\ Len(sessions) < MaxSessions
            /\ sessions' = Append(sessions, Session(permPending[k], "starting"))
            /\ recognitionRef' = Len(sessions) + 1
            /\ UNCHANGED micPermissionError
       ELSE /\ micPermissionError' = IF outcome = "NotAllowedError" THEN "denied" ELSE "failed"
            /\ UNCHANGED <<sessions, recognitionRef>>
    /\ UNCHANGED <<stayLocation, screen, alerts, plannerCore, locState, focusState, isListeningFor,
                       routeStore, suggestState, plannerOthers>>

\* recognition.onstart (277-279)
onstart(i) ==
    /\ i \in 1..Len(sessions) /\ sessions[i].state = "starting"
    /\ sessions' = [sessions EXCEPT ![i].state = "listening"]
    /\ isListeningFor' = sessions[i].field
    /\ UNCHANGED <<stayLocation, screen, alerts, plannerCore, locState, focusState, recognitionRef,
                       micPermissionError, permPending, routeStore, suggestState,
                       plannerOthers>>

\* recognition.onend (281-284)
onend(i) ==
    /\ i \in LiveSessions
    /\ sessions' = [sessions EXCEPT ![i].state = "ended"]
    /\ isListeningFor' = "none"
    /\ recognitionRef' = 0
    /\ UNCHANGED <<stayLocation, screen, alerts, plannerCore, locState, focusState,
                       micPermissionError, permPending, routeStore, suggestState,
                       plannerOthers>>

\* recognition.onerror (286-289); the session's onend follows.
onerror(i) ==
    /\ i \in LiveSessions
    /\ micPermissionError' = "speech"
    /\ isListeningFor' = "none"
    /\ UNCHANGED <<stayLocation, screen, alerts, plannerCore, locState, focusState, recognitionRef,
                       permPending, sessions, routeStore, suggestState, plannerOthers>>

\* recognition.onresult (291-298)
onresult(i, transcript) ==
    /\ i \in 1..Len(sessions) /\ sessions[i].state \in {"listening", "stopping"}
    /\ IF sessions[i].field = "destination"
       THEN /\ PlannerCommit(step, hasStayPlanned, transcript, selectedStayId)
            /\ UNCHANGED stayLocation
       ELSE /\ stayLocation' = transcript
            /\ UNCHANGED plannerCore
    /\ UNCHANGED <<screen, alerts, locState, focusState, voiceState, routeStore, predFetches,
                       destinationPredictions, stayPredictions, lastPredQuery, plannerOthers>>
    /\ PredictionEffects

\* onRetry / onCancel of the microphone error (430-431, 504-505)
dismissMicError ==
    /\ step \in {1, 2} /\ micPermissionError # "none"
    /\ micPermissionError' = "none"
    /\ UNCHANGED <<stayLocation, screen, alerts, plannerCore, locState, focusState, isListeningFor,
                       recognitionRef, permPending, sessions, routeStore, suggestState,
                       plannerOthers>>

\* ---- saved routes: handleToggleDestination (233-243) over AppContext ----

Route(id, origin, dest) == [id |-> id, origin |-> origin, destination |-> dest]

\* The set of (origin, destination) pairs saved.
PairSet(routes) == {<<routes[i].origin, routes[i].destination>> : i \in 1..Len(routes)}

\* savedRoutes.find(r => r.origin === origin && r.destination === dest): its index, or 0
findRoute(routes, origin, dest) ==
    IF \E i \in 1..Len(routes) : routes[i].origin = origin /\ routes[i].destination = dest
    THEN CHOOSE i \in 1..Len(routes) :
            /\ routes[i].origin = origin /\ routes[i].destination = dest
            /\ \A j \in 1..(i - 1) : ~(routes[j].origin = origin /\ routes[j].destination = dest)
    ELSE 0

\* response.data of POST /saved-routes: the saved-route controller is not among the
\* sources; the route it creates is taken to be the data posted under a fresh id.
createdRoute(id, req) == Route(id, req.origin, req.dest)

\* A faulty variant of withoutId: the whole list is dropped.
withoutAny(routes, id) == <<>>

\* prev.filter(r => r.id !== id) (118)
RECURSIVE withoutId(_, _)
withoutId(routes, id) ==
    IF routes = <<>> THEN <<>>
    ELSE IF Head(routes).id = id THEN withoutId(Tail(routes), id)
    ELSE <<Head(routes)>> \o withoutId(Tail(routes), id)

NoToggle == [count |-> 0, origin |-> "", dest |-> "", before |-> {}, failed |-> FALSE, mixed |-> FALSE]

\* The log after a toggle of (origin, dest): the first toggle opens it with the pairs saved
\* at that moment, the second one of the same pair is counted, anything else is mixed in.
logToggle(origin, dest) ==
    IF tgLog.count = 0
    THEN [count |-> 1, origin |-> origin, dest |-> dest, before |-> PairSet(savedRoutes),
          failed |-> FALSE, mixed |-> FALSE]
    ELSE IF tgLog.count = 1 /\ tgLog.origin = origin /\ tgLog.dest = dest
    THEN [tgLog EXCEPT !.count = 2]
    ELSE [tgLog EXCEPT !.mixed = TRUE]

\* fetchSavedRoutes (62-69), when the user has logged in: the list the server holds.
fetchSavedRoutes(list) ==
    /\ nextRouteId = 1 /\ savedRoutes = <<>> /\ routeReqs = <<>> /\ tgLog = NoToggle
    /\ savedRoutes' = list
    /\ nextRouteId' = Len(list) + 1
    /\ UNCHANGED <<stayLocation, screen, alerts, plannerCore, locState, focusState, voiceState,
                       routeReqs, tgLog, suggestState, plannerOthers>>

\* handleToggleDestination (233-243) on a listed attraction, up to the await of addRoute
\* (105-107) or of removeRoute (115-117)
handleToggleDestination(i) ==
    /\ step = 3 /\ i \in 1..Len(nearbyAttractions)
    /\ IF stayName = ""
       THEN UNCHANGED <<routeReqs, tgLog>>
       ELSE /\ Len(routeReqs) < MaxRouteReqs
            /\ LET dest == nearbyAttractions[i]
                   found == findRoute(savedRoutes, stayName, dest)
               IN  /\ routeReqs' = Append(routeReqs,
                          IF found # 0
                          THEN [op |-> "remove", id |-> savedRoutes[found].id, origin |-> stayName, dest |-> dest]
                          ELSE [op |-> "add", id |-> 0, origin |-> stayName, dest |-> dest])
                   /\ tgLog' = logToggle(stayName, dest)
    /\ UNCHANGED <<stayLocation, screen, alerts, plannerCore, locState, focusState, voiceState,
                       savedRoutes, nextRouteId, suggestState, plannerOthers>>

\* addRoute (105-107) up to its await of the POST, called by a screen of the store
addRoute(origin, dest) ==
    /\ Len(routeReqs) < MaxRouteReqs
    /\ routeReqs' = Append(routeReqs, [op |-> "add", id |-> 0, origin |-> origin, dest |-> dest])
    /\ UNCHANGED <<stayLocation, screen, alerts, plannerCore, locState, focusState, voiceState,
                       savedRoutes, nextRouteId, tgLog, suggestState, plannerOthers>>

\* removeRoute (115-117) up to its await of the DELETE
removeRoute(id) ==
    /\ Len(routeReqs) < MaxRouteReqs
    /\ routeReqs' = Append(routeReqs, [op |-> "remove", id |-> id, origin |-> "", dest |-> ""])
    /\ UNCHANGED <<stayLocation, screen, alerts, plannerCore, locState, focusState, voiceState,
                       savedRoutes, nextRouteId, tgLog, suggestState, plannerOthers>>

\* The server answers a request of addRoute (107-112) or of removeRoute (117-122): ok, or
\* an error that the catch turns into an alert.
SavedRouteReply(k, ok) ==
    /\ k \in 1..Len(routeReqs)
    /\ routeReqs' = RemoveAt(routeReqs, k)
    /\ IF ~ok
       THEN /\ alerts < MaxAlerts
            /\ alerts' = alerts + 1
            /\ tgLog' = [tgLog EXCEPT !.failed = TRUE]
            /\ UNCHANGED <<savedRoutes, nextRouteId>>
       ELSE IF routeReqs[k].op = "add"
       THEN /\ nextRouteId <= MaxRouteId
            /\ savedRoutes' = <<createdRoute(nextRouteId, routeReqs[k])>> \o savedRoutes
            /\ nextRouteId' = nextRouteId + 1
            /\ UNCHANGED <<tgLog, alerts>>
       ELSE /\ savedRoutes' = withoutId(savedRoutes, routeReqs[k].id)
            /\ UNCHANGED <<nextRouteId, tgLog, alerts>>
    /\ UNCHANGED <<stayLocation, screen, plannerCore, locState, focusState, voiceState,
                       suggestState, plannerOthers>>

PlannerInit ==
    /\ step = 1
    /\ destination = ""
    /\ hasStayPlanned = FALSE
    /\ stayLocation = ""
    /\ selectedStayId = "none"
    /\ stays = <<>>
    /\ isLoadingStays = FALSE
    /\ staysError = FALSE
    /\ nearbyAttractions = <<>>
    /\ isLoadingAttractions = FALSE
    /\ attractionsError = FALSE
    /\ locationError = "none"
    /\ isFetchingLocation = FALSE
    /\ locReq = "none"
    /\ activePlannerInput = "none"
    /\ blurTimers = 0
    /\ placeFetches = <<>>
    /\ isListeningFor = "none"
    /\ recognitionRef = 0
    /\ micPermissionError = "none"
    /\ permPending = <<>>
    /\ sessions = <<>>
    /\ destTimer = DebounceTimer("none", "", "")
    /\ stayTimer = DebounceTimer("none", "", "")
    /\ predFetches = <<>>
    /\ destinationPredictions = <<>>
    /\ stayPredictions = <<>>
    /\ lastPredQuery = [destination |-> "", stay |-> ""]
    /\ screen = "Main"
    /\ savedRoutes = <<>>
    /\ nextRouteId = 1
    /\ routeReqs = <<>>
    /\ tgLog = NoToggle
    /\ alerts = 0

\* The planner wizard: its three states, the location lookup and the place searches.
NextPlanner ==
    \/ \E text \in DestTexts : setDestination(text)
    \/ handleDestinationFocus
    \/ handleDestinationBlur
    \/ BlurTimer
    \/ \E geo \in BOOLEAN : handleDestinationNext(geo)
    \/ \E code \in 0..3 : GetCurrentPositionReply(code)
    \/ \E a \in Addresses : PlannerGeocodeReply(a)
    \/ cancelLocationError
    \/ toggleStayPlanned
    \/ \E text \in StayTexts : setStayLocation(text)
    \/ \E i \in 1..1 : selectStay(i)
    \/ handleStayInfoNext
    \/ completeAndGoHome
    \/ \E k \in 1..MaxPlaceFetches, found \in BOOLEAN : CoordsReply(k, found)
    \/ \E k \in 1..MaxPlaceFetches, r \in StayLists \cup AttractionLists : SearchReply(k, r)

\* Voice search, on the destination field and on the stay field.
NextVoice ==
    \/ setDestination("Goa")
    \/ handleDestinationNext(TRUE)
    \/ toggleStayPlanned
    \/ \E f \in Fields, supported \in BOOLEAN : handleVoiceSearch(f, supported)
    \/ \E k \in 1..MaxPermPending, o \in {"granted", "NotAllowedError", "NotFoundError"} : GetUserMediaReply(k, o)
    \/ \E i \in 1..MaxSessions : onstart(i)
    \/ \E i \in 1..MaxSessions, t \in Transcripts : onresult(i, t)
    \/ \E i \in 1..MaxSessions : onerror(i)
    \/ \E i \in 1..MaxSessions : onend(i)
    \/ dismissMicError

\* Saving and removing routes from the suggestions of the planner's third state.
NextRoutes ==
    \/ \E list \in {<<>>, <<Route(1, "Resort", "Fort")>>} : fetchSavedRoutes(list)
    \/ setDestination("Goa")
    \/ handleDestinationNext(TRUE)
    \/ toggleStayPlanned
    \/ setStayLocation("Resort")
    \/ handleStayInfoNext
    \/ \E k \in 1..MaxPlaceFetches, found \in BOOLEAN : CoordsReply(k, found)
    \/ \E k \in 1..MaxPlaceFetches, r \in StayLists \cup AttractionLists : SearchReply(k, r)
    \/ \E i \in 1..2 : handleToggleDestination(i)
    \/ \E k \in 1..MaxRouteReqs, ok \in BOOLEAN : SavedRouteReply(k, ok)


\* Autocomplete on the destination field and on the stay field.
NextSuggest ==
    \/ \E text \in SuggestTexts : setDestination(text)
    \/ handleDestinationFocus
    \/ handleDestinationBlur
    \/ BlurTimer
    \/ \E f \in Fields : PredictionTimer(f)
    \/ \E k \in 1..MaxPredFetches, ok \in BOOLEAN : PredictionsResolved(k, ok)
    \/ selectDestinationPrediction
    \/ handleDestinationNext(TRUE)
    \/ toggleStayPlanned
    \/ setStayLocation("Resort")
    \/ handleStayFocus
    \/ handleStayBlur
    \/ selectStayPrediction
(***************************************************************************)
(* Map service: getPlacePredictions, the HTTP adapter (src/unnamed/        *)
(* part_000 34-56) and the SDK adapter the screens import (256-288).       *)
(***************************************************************************)

\* Bound: the length of an input of getPlacePredictions.
MaxInputLen == 4
\* if (!input || input.length < 3) (part_000 35)
MinInputLen == 3

Chars == {"a", "b"}
RECURSIVE Strings(_)
Strings(n) == IF n = 0 THEN {<<>>} ELSE Strings(n - 1) \cup {Append(s, c) : s \in Strings(n - 1), c \in Chars}
Inputs == Strings(MaxInputLen)

\* What a provider may answer with: its predictions, by description.
ProviderPredictions == {<<>>, <<"p1">>, <<"p1", "p2">>}

\* The HTTP adapter's getPlacePredictions (34-38) up to await fetch
httpGetPlacePredictions(input) ==
    /\ predPhase = "idle"
    /\ predImpl' = "http"
    /\ predInput' = input
    /\ IF input = <<>> \/ Len(input) < MinInputLen
       THEN /\ predPhase' = "returned"
            /\ predSent' = 0
            /\ predResult' = <<>>
       ELSE /\ predPhase' = "awaiting"
            /\ predSent' = 1
            /\ predResult' = <<>>
    /\ UNCHANGED <<googleDefined, adapterCalls, predOthers>>

\* The SDK adapter's getPlacePredictions (256-258) through getAutocompletePredictions
\* (261-270) up to the provider's callback
sdkGetPlacePredictions(input) ==
    /\ predPhase = "idle"
    /\ predImpl' = "sdk"
    /\ predInput' = input
    /\ IF ~googleDefined
       THEN /\ predPhase' = "returned"
            /\ predSent' = 0
            /\ predResult' = <<>>
       ELSE /\ predPhase' = "awaiting"
            /\ predSent' = 1
            /\ predResult' = <<>>
    /\ UNCHANGED <<googleDefined, adapterCalls, predOthers>>

\* The provider answers: fetch resolves to data with or without predictions or rejects
\* (39-55); the SDK calls back with a status and predictions or null (270-286).
PredictionsReply(ok, predictions) ==
    /\ predPhase = "awaiting"
    /\ predPhase' = "returned"
    /\ predResult' = IF ok THEN predictions ELSE <<>>
    /\ UNCHANGED <<googleDefined, predImpl, predInput, predSent, adapterCalls, predOthers>>

\* The caller takes the result.
PredictionsTaken ==
    /\ predPhase = "returned"
    /\ predPhase' = "idle"
    /\ predImpl' = "none"
    /\ predInput' = <<>>
    /\ predSent' = 0
    /\ predResult' = <<>>
    /\ UNCHANGED <<googleDefined, adapterCalls, predOthers>>

\* The Google Maps script finishes loading.
GoogleScriptLoaded ==
    /\ ~googleDefined /\ predPhase = "idle"
    /\ googleDefined' = TRUE
    /\ UNCHANGED <<predPhase, predImpl, predInput, predSent, predResult, adapterCalls, predOthers>>

\* ---- the operations of the map service as promises: how each one settles ----

\* Bound: calls of the map service in progress at one time.
MaxAdapterCalls == 2

\* The operations the screens import from the map service (PlannerScreen.tsx 11, 523),
\* all of the SDK adapter (part_000 256-410), and those of them that the HTTP adapter
\* (34-194) also has.
AdapterOps == {"getPlacePredictions", "searchNearbyPlaces", "getPlaceDetails", "getDirections",
               "reverseGeocode"}
HttpOps == {"getPlacePredictions", "getDirections", "reverseGeocode"}
ListOps == {"getPlacePredictions", "searchNearbyPlaces", "reverseGeocode"}

\* What the SDK hands to the callback of an operation: a status, and a payload that is
\* null, an empty array (of the operations whose payload is an array) or data.
SdkOutcomes(op) ==
    [status : {"OK", "ERROR"}, payload : IF op \in ListOps THEN {"null", "empty", "some"} ELSE {"null", "some"}]
NoOutcome == [status |-> "none", payload |-> "none"]

\* What fetch and the decoding of its response come to in the HTTP adapter: fetch or
\* response.json() throws; a JSON body with the data asked for; a JSON body without it
\* (an error body); and, of getDirections, a body that is not JSON, which decodes as a
\* polyline or does not.
HttpOutcomes(op) ==
    [status : {"OK"}, payload : {"throws", "data", "other"}
                                    \cup (IF op = "getDirections" THEN {"polyline", "garbage"} ELSE {})]

\* The value an operation falls back to: [] (262, 272, 293, 324; 51, 54), null (336,
\* 349, 361, 388; 85, 90), "Unknown Location" (395, 406; 189, 192).
Fallback(op) ==
    CASE op \in {"getPlacePredictions", "searchNearbyPlaces"} -> "[]"
      [] op \in {"getPlaceDetails", "getDirections"} -> "null"
      [] op = "reverseGeocode" -> UnknownLocation

\* The normalized result of an operation, by its kind.
Normalized(op) ==
    CASE op \in {"getPlacePredictions", "searchNearbyPlaces"} -> "places"
      [] op = "getPlaceDetails" -> "place"
      [] op = "getDirections" -> "route"
      [] op = "reverseGeocode" -> "address"

Settled(state, value) == [state |-> state, value |-> value]

\* A faulty variant of sdkSettle: a status other than OK rejects the promise.
sdkSettleRejecting(op, o) ==
    IF o.status # "OK" THEN Settled("rejected", o.status)
    ELSE IF o.payload = "some" THEN Settled("resolved", Normalized(op))
    ELSE Settled("resolved", Fallback(op))

\* The callbacks of the SDK adapter (270-286, 308-326, 345-351, 383-390, 402-409):
\* each resolves, to the mapped payload when the status is OK and the payload is there,
\* else to the fallback; the map of an empty array is [], and results[0] of an empty
\* array is undefined.
sdkSettle(op, o) ==
    IF o.status = "OK" /\ o.payload = "some" THEN Settled("resolved", Normalized(op))
    ELSE IF o.status = "OK" /\ o.payload = "empty" /\ op # "reverseGeocode" THEN Settled("resolved", "[]")
    ELSE Settled("resolved", Fallback(op))

\* The HTTP adapter after its awaits (39-55, 72-91, 184-193): everything is inside try,
\* and catch returns the fallback; getDirections returns a JSON body as it is.
httpSettle(op, o) ==
    CASE o.payload = "throws" -> Settled("resolved", Fallback(op))
      [] o.payload = "data" -> Settled("resolved", Normalized(op))
      [] o.payload = "other" -> Settled("resolved", IF op = "getDirections" THEN "body" ELSE Fallback(op))
      [] o.payload = "polyline" -> Settled("resolved", Normalized(op))
      [] o.payload = "garbage" -> Settled("resolved", Fallback(op))

AdapterCall(op, impl, state, value, outcome) ==
    [op |-> op, impl |-> impl, state |-> state, value |-> value, outcome |-> outcome]

\* An operation of the SDK adapter is called (262, 293, 336, 361, 395): it returns its
\* fallback when google is undefined, else it hands the request to the SDK.
sdkCall(op) ==
    /\ Len(adapterCalls) < MaxAdapterCalls
    /\ adapterCalls' = Append(adapterCalls,
           IF ~googleDefined THEN AdapterCall(op, "sdk", "resolved", Fallback(op), NoOutcome)
           ELSE AdapterCall(op, "sdk", "awaiting", "none", NoOutcome))
    /\ UNCHANGED <<googleDefined, predPhase, predImpl, predInput, predSent, predResult,
                       predOthers>>

\* The SDK calls back.
SdkCallback(k, o) ==
    /\ k \in 1..Len(adapterCalls)
    /\ adapterCalls[k].impl = "sdk" /\ adapterCalls[k].state = "awaiting"
    /\ o \in SdkOutcomes(adapterCalls[k].op)
    /\ LET s == sdkSettle(adapterCalls[k].op, o)
       IN  adapterCalls' = [adapterCalls EXCEPT ![k] =
               AdapterCall(adapterCalls[k].op, "sdk", s.state, s.value, o)]
    /\ UNCHANGED <<googleDefined, predPhase, predImpl, predInput, predSent, predResult,
                       predOthers>>

\* An operation of the HTTP adapter is called (34-38, 59-70, 181-183) and awaits fetch.
httpCall(op) ==
    /\ op \in HttpOps
    /\ Len(adapterCalls) < MaxAdapterCalls
    /\ adapterCalls' = Append(adapterCalls, AdapterCall(op, "http", "awaiting", "none", NoOutcome))
    /\ UNCHANGED <<googleDefined, predPhase, predImpl, predInput, predSent, predResult,
                       predOthers>>

\* fetch settles and the response is decoded.
HttpReply(k, o) ==
    /\ k \in 1..Len(adapterCalls)
    /\ adapterCalls[k].impl = "http" /\ adapterCalls[k].state = "awaiting"
    /\ o \in HttpOutcomes(adapterCalls[k].op)
    /\ LET s == httpSettle(adapterCalls[k].op, o)
       IN  adapterCalls' = [adapterCalls EXCEPT ![k] =
               AdapterCall(adapterCalls[k].op, "http", s.state, s.value, o)]
    /\ UNCHANGED <<googleDefined, predPhase, predImpl, predInput, predSent, predResult,
                       predOthers>>

\* The caller's await of a settled call returns.
AdapterCallTaken(k) ==
    /\ k \in 1..Len(adapterCalls) /\ adapterCalls[k].state # "awaiting"
    /\ adapterCalls' = RemoveAt(adapterCalls, k)
    /\ UNCHANGED <<googleDefined, predPhase, predImpl, predInput, predSent, predResult,
                       predOthers>>

PredictionsInit ==
    /\ adapterCalls = <<>>
    /\ googleDefined = FALSE
    /\ predPhase = "idle"
    /\ predImpl = "none"
    /\ predInput = <<>>
    /\ predSent = 0
    /\ predResult = <<>>

NextPredictions ==
    \/ \E input \in Inputs : httpGetPlacePredictions(input)
    \/ \E input \in Inputs : sdkGetPlacePredictions(input)
    \/ \E ok \in BOOLEAN, p \in ProviderPredictions : PredictionsReply(ok, p)
    \/ PredictionsTaken
    \/ GoogleScriptLoaded


\* The operations of the map service, called and answered in any order.
NextAdapter ==
    \/ GoogleScriptLoaded
    \/ \E op \in AdapterOps : sdkCall(op)
    \/ \E k \in 1..MaxAdapterCalls, s \in {"OK", "ERROR"}, p \in {"null", "empty", "some"} :
          SdkCallback(k, [status |-> s, payload |-> p])
    \/ \E op \in HttpOps : httpCall(op)
    \/ \E k \in 1..MaxAdapterCalls, p \in {"throws", "data", "other", "polyline", "garbage"} :
          HttpReply(k, [status |-> "OK", payload |-> p])
    \/ \E k \in 1..MaxAdapterCalls : AdapterCallTaken(k)
(***************************************************************************)
(* Client: the user profile and its vehicles,                              *)
(* src/client/src/contexts/AppContext.tsx 23-30, 97-103, 224-312.          *)
(* A vehicle id is a string in the code; here it is the pair of what the   *)
(* string is made of: the prefix (`tw`, `fw`, `tw_skip_`, `fw_skip_`, or   *)
(* "now" for the all-digit String(Date.now())) and the number after it.    *)
(***************************************************************************)
MaxAppTrips == 2
\* Bound: trips the server creates for the store in one behaviour.
MaxAppTripId == 2
\* Bound: DELETE /trips requests of removeTrip in flight at one time.
MaxTripDeletes == 1

\* TripDetails, the navigation context (the fields addTrip sends), and null
TripDetails(from, to, vehicleNumber) ==
    [isNull |-> FALSE, from |-> from, to |-> to, vehicleNumber |-> vehicleNumber]
NoDetails == [isNull |-> TRUE, from |-> "", to |-> "", vehicleNumber |-> ""]

MaxClock == 2
MaxVehicles == 2
MaxSignupReqs == 1

VehicleTypes == {"twoWheelers", "fourWheelers"}
RegNumbers == {"MH12", "KA01"}
NoUser == [isNull |-> TRUE, twoWheelers |-> <<>>, fourWheelers |-> <<>>]
NoSetupData == [isNull |-> TRUE, numTwoWheelers |-> 0, numFourWheelers |-> 0]

VehicleId(prefix, n) == [prefix |-> prefix, n |-> n]
Vehicle(id, regNumber) == [id |-> id, regNumber |-> regNumber]

\* The registration numbers a user may enter on the second profile screen.
RegLists == {<<>>, <<"MH12">>, <<"MH12", "KA01">>}

\* String(Date.now()) (282)
clockId(now) == VehicleId("now", now)

\* The id of the vehicle at index i of a list sent at signup (236-237, 261-262).
indexId(prefix, i) == VehicleId(prefix, i - 1)

\* vehicles.twoWheelers.map((reg, i) => ({ id: `tw${i}`, regNumber: reg })) (236-237)
withIds(prefix, regs) == [i \in 1..Len(regs) |-> Vehicle(indexId(prefix, i), regs[i])]

\* Array.from({ length }, (_, i) => ({ id: `tw_skip_${i}`, regNumber: '' })) (261-262)
blankVehicles(prefix, length) == [i \in 1..length |-> Vehicle(indexId(prefix, i), "")]

\* handleSignup (97-103)
handleSignup ==
    /\ user = NoUser
    /\ pendingSignup' = TRUE
    /\ screen' = "ProfileSetup1"
    /\ UNCHANGED <<user, profileSetupData, signupReqs, clock, fetchReqs, alerts, journey,
                       accountOthers>>

\* startProfileSetup (224-227)
startProfileSetup(numTwo, numFour) ==
    /\ screen = "ProfileSetup1"
    /\ profileSetupData' = [isNull |-> FALSE, numTwoWheelers |-> numTwo,
                            numFourWheelers |-> numFour]
    /\ screen' = "ProfileSetup2"
    /\ UNCHANGED <<user, pendingSignup, signupReqs, clock, fetchReqs, alerts, journey,
                       accountOthers>>

\* completeProfileSetup (229-252), up to the await of the POST
completeProfileSetup(two, four) ==
    /\ screen = "ProfileSetup2"
    /\ Len(signupReqs) < MaxSignupReqs
    /\ IF ~profileSetupData.isNull /\ pendingSignup
       THEN signupReqs' = Append(signupReqs, [twoWheelers |-> withIds("tw", two),
                                              fourWheelers |-> withIds("fw", four)])
       ELSE UNCHANGED signupReqs
    /\ UNCHANGED <<user, pendingSignup, profileSetupData, clock, fetchReqs, screen, alerts,
                       journey, accountOthers>>

\* skipProfileSetup (254-276), up to the await of the POST
skipProfileSetup ==
    /\ screen = "ProfileSetup2"
    /\ Len(signupReqs) < MaxSignupReqs
    /\ IF ~profileSetupData.isNull /\ pendingSignup
       THEN signupReqs' = Append(signupReqs,
                [twoWheelers |-> blankVehicles("tw_skip_", profileSetupData.numTwoWheelers),
                 fourWheelers |-> blankVehicles("fw_skip_", profileSetupData.numFourWheelers)])
       ELSE UNCHANGED signupReqs
    /\ UNCHANGED <<user, pendingSignup, profileSetupData, clock, fetchReqs, screen, alerts,
                       journey, accountOthers>>

\* POST /auth/signup returns the created user profile: the vehicle lists of the body.
createdProfile(body) ==
    [isNull |-> FALSE, twoWheelers |-> body.twoWheelers, fourWheelers |-> body.fourWheelers]

\* The POST is answered: setUser(response.data) and what follows it (242-245, 267-270),
\* or the catch of a refusal (246-250, 271-274).
SignupReply(ok) ==
    /\ signupReqs # <<>>
    /\ signupReqs' = Tail(signupReqs)
    /\ IF ok
       THEN /\ user' = createdProfile(Head(signupReqs))
            /\ profileSetupData' = NoSetupData
            /\ pendingSignup' = FALSE
            /\ screen' = "Home"
       ELSE UNCHANGED <<user, profileSetupData, pendingSignup, screen>>
    /\ UNCHANGED <<clock, fetchReqs, alerts, journey, accountOthers>>

\* addVehicle (279-288)
addVehicle(type, regNumber) ==
    /\ Len(user[type]) < MaxVehicles
    /\ IF user.isNull \/ regNumber = ""
       THEN UNCHANGED user
       ELSE user' = [user EXCEPT ![type] = Append(@, Vehicle(clockId(clock), regNumber))]
    /\ UNCHANGED <<pendingSignup, profileSetupData, signupReqs, clock, fetchReqs, screen, alerts,
                       journey, accountOthers>>

\* removeVehicle (290-298)
removeVehicle(type, id) ==
    /\ IF user.isNull
       THEN UNCHANGED user
       ELSE user' = [user EXCEPT ![type] = SelectSeq(@, LAMBDA v : v.id # id)]
    /\ UNCHANGED <<pendingSignup, profileSetupData, signupReqs, clock, fetchReqs, screen, alerts,
                       journey, accountOthers>>

\* updateVehicle (300-312)
updateVehicle(type, vehicle) ==
    /\ IF user.isNull
       THEN UNCHANGED user
       ELSE user' = [user EXCEPT ![type] =
                [i \in 1..Len(@) |-> IF @[i].id = vehicle.id
                                     THEN [@[i] EXCEPT !.regNumber = vehicle.regNumber]
                                     ELSE @[i]]]
    /\ UNCHANGED <<pendingSignup, profileSetupData, signupReqs, clock, fetchReqs, screen, alerts,
                       journey, accountOthers>>

\* A millisecond passes.
ClockTick ==
    /\ clock < MaxClock
    /\ clock' = clock + 1
    /\ UNCHANGED <<user, pendingSignup, profileSetupData, signupReqs, fetchReqs, screen, alerts,
                       journey, accountOthers>>

\* The ids a caller may name.
IdPrefixes == {"tw", "fw", "tw_skip_", "fw_skip_", "now"}
VehicleIds == {VehicleId(prefix, n) : prefix \in IdPrefixes, n \in 0..MaxClock}

AccountInit ==
    /\ user = NoUser
    /\ pendingSignup = FALSE
    /\ profileSetupData = NoSetupData
    /\ signupReqs = <<>>
    /\ clock = 0
    /\ fetchReqs = <<>>
    /\ tripDeletes = <<>>
    /\ nextAppTripId = 1
    /\ currentTripDetails = NoDetails
    /\ isNavigating = FALSE
    /\ navigationOrigin = CL
    /\ navigationDestination = ""
    /\ tripPosts = <<>>
    /\ appTrips = <<>>

NextAccount ==
    \/ handleSignup
    \/ \E numTwo \in 0..MaxVehicles, numFour \in 0..1 : startProfileSetup(numTwo, numFour)
    \/ \E two \in RegLists, four \in {<<>>, <<"KA01">>} : completeProfileSetup(two, four)
    \/ skipProfileSetup
    \/ \E ok \in BOOLEAN : SignupReply(ok)
    \/ \E type \in VehicleTypes, reg \in RegNumbers \cup {""} : addVehicle(type, reg)
    \/ \E type \in VehicleTypes, id \in VehicleIds : removeVehicle(type, id)
    \/ \E type \in VehicleTypes, id \in VehicleIds, reg \in RegNumbers :
          updateVehicle(type, Vehicle(id, reg))
    \/ ClockTick

(***************************************************************************)
(* Client: navigation and trips of the store, AppContext.tsx 141-221 and   *)
(* 314-320.  A handler is called from the render that follows the last     *)
(* change of the store, so the currentTripDetails it closes over is the    *)
(* one in the store.  The active tab and the active modal are not followed.*)
(***************************************************************************)

\* Faulty variant: a trip is added whether or not there is a context.
contextAssumed(details) == TRUE
\* if (currentTripDetails) of endNavigation (205)
hasContext(details) == ~details.isNull

\* The payload addTrip posts (144-153), of the fields followed here.
tripPayload(tripData) ==
    [origin |-> tripData.from, destination |-> tripData.to, vehicle |-> tripData.vehicleNumber]

\* newTrip of addTrip (158-174) from response.data, which POST /trips returns as created
\* from the payload (createTrip).
newTrip(data) ==
    [id |-> data._id, from |-> data.origin, to |-> data.destination, vehicleNumber |-> data.vehicle]

\* response.data of POST /trips: the trip that createTrip stores for the payload
\* (tripController.ts 25-38), under the _id the database gives it.
createdTrip(id, payload) ==
    [_id |-> id, origin |-> payload.origin, destination |-> payload.destination,
     vehicle |-> payload.vehicle]

\* startNavigation (198-202)
startNavigation(details) ==
    /\ Len(tripPosts) + Len(appTrips) < MaxAppTrips
    /\ currentTripDetails' = details
    /\ isNavigating' = TRUE
    /\ navigationDestination' = ""
    /\ UNCHANGED <<user, pendingSignup, profileSetupData, signupReqs, clock, fetchReqs, screen,
                       alerts, navigationOrigin, tripPosts, appTrips, tripDeletes,
                       nextAppTripId, accountOthers>>

\* A faulty variant of detailsAfterEnd: the context is kept when the navigation ends.
detailsKeptAfterEnd(details) == details

\* setCurrentTripDetails(null) (219)
detailsAfterEnd(details) == NoDetails

\* endNavigation (204-221), with addTrip (141-155) up to its await of the POST
endNavigation ==
    /\ tripPosts' = IF hasContext(currentTripDetails)
                    THEN Append(tripPosts, tripPayload(currentTripDetails))
                    ELSE tripPosts
    /\ isNavigating' = FALSE
    /\ currentTripDetails' = detailsAfterEnd(currentTripDetails)
    /\ navigationOrigin' = CL
    /\ UNCHANGED <<user, pendingSignup, profileSetupData, signupReqs, clock, fetchReqs, screen,
                       alerts, navigationDestination, appTrips, tripDeletes, nextAppTripId,
                       accountOthers>>

\* startNavigationFrom (314-320)
startNavigationFrom(origin, dest) ==
    /\ navigationOrigin' = origin
    /\ navigationDestination' = dest
    /\ screen' = "Main"
    /\ UNCHANGED <<user, pendingSignup, profileSetupData, signupReqs, clock, fetchReqs, alerts,
                       currentTripDetails, isNavigating, tripPosts, appTrips, tripDeletes,
                       nextAppTripId, accountOthers>>

\* POST /trips is answered (155-180): the new trip is put first, or the catch alerts.
AddTripReply(ok) ==
    /\ tripPosts # <<>>
    /\ tripPosts' = Tail(tripPosts)
    /\ IF ok
       THEN /\ nextAppTripId <= MaxAppTripId
            /\ appTrips' = <<newTrip(createdTrip(nextAppTripId, Head(tripPosts)))>> \o appTrips
            /\ nextAppTripId' = nextAppTripId + 1
            /\ UNCHANGED alerts
       ELSE /\ alerts < MaxAlerts
            /\ alerts' = alerts + 1
            /\ UNCHANGED <<appTrips, nextAppTripId>>
    /\ UNCHANGED <<user, pendingSignup, profileSetupData, signupReqs, clock, fetchReqs, screen,
                       currentTripDetails, isNavigating, navigationOrigin,
                       navigationDestination, tripDeletes, accountOthers>>

\* removeTrip (183-185) up to its await of the DELETE
removeTrip(id) ==
    /\ Len(tripDeletes) < MaxTripDeletes
    /\ tripDeletes' = Append(tripDeletes, id)
    /\ UNCHANGED <<user, pendingSignup, profileSetupData, signupReqs, clock, fetchReqs, screen,
                       alerts, currentTripDetails, isNavigating, navigationOrigin,
                       navigationDestination, tripPosts, appTrips, nextAppTripId,
                       accountOthers>>

\* DELETE /trips/:id is answered (186-190): the trip is filtered out, or the catch alerts.
RemoveTripReply(k, ok) ==
    /\ k \in 1..Len(tripDeletes)
    /\ tripDeletes' = RemoveAt(tripDeletes, k)
    /\ IF ok
       THEN /\ appTrips' = withoutId(appTrips, tripDeletes[k])
            /\ UNCHANGED alerts
       ELSE /\ alerts < MaxAlerts
            /\ alerts' = alerts + 1
            /\ UNCHANGED appTrips
    /\ UNCHANGED <<user, pendingSignup, profileSetupData, signupReqs, clock, fetchReqs, screen,
                       currentTripDetails, isNavigating, navigationOrigin,
                       navigationDestination, tripPosts, nextAppTripId, accountOthers>>

NextJourney ==
    \/ \E from \in {CL, "Pune"}, to \in {"Goa", "Hampi"}, v \in RegNumbers :
          startNavigation(TripDetails(from, to, v))
    \/ endNavigation
    \/ \E origin \in {"Pune", "Goa"}, dest \in {"Hampi"} : startNavigationFrom(origin, dest)
    \/ \E ok \in BOOLEAN : AddTripReply(ok)


(***************************************************************************)
(* Store: the user effect and the lists it fills (AppContext.tsx 42-69,    *)
(* 85-95).                                                                 *)
(***************************************************************************)
\* Bound: GET requests of fetchTrips and fetchSavedRoutes in flight at one time.
MaxFetchReqs == 2

\* The profile POST /auth/login answers with.
LoggedInUser == [isNull |-> FALSE, twoWheelers |-> <<>>, fourWheelers |-> <<>>]

\* What GET /trips and GET /saved-routes may answer for that user.
TripLists == {<<>>, <<[id |-> 1, from |-> "Pune", to |-> "Goa", vehicleNumber |-> "MH12"]>>}
RouteLists == {<<>>, <<Route(1, "Resort", "Fort")>>}

\* The effect on [user] (43-51) for the user u of the render: fetchTrips() and
\* fetchSavedRoutes() up to their awaits (55, 64), or both lists emptied.
UserEffect(u) ==
    IF ~u.isNull
    THEN /\ Len(fetchReqs) + 2 <= MaxFetchReqs
         /\ fetchReqs' = fetchReqs \o <<"trips", "savedRoutes">>
         /\ UNCHANGED <<appTrips, savedRoutes>>
    ELSE /\ appTrips' = <<>>
         /\ savedRoutes' = <<>>
         /\ UNCHANGED fetchReqs

\* POST /auth/login is answered (87-94): setUser(response.data), setScreen(Home) and the
\* effect of the render that follows; a refusal changes nothing.
LoginReply(ok) ==
    /\ user.isNull
    /\ IF ok
       THEN /\ user' = LoggedInUser
            /\ screen' = "Home"
            /\ UserEffect(LoggedInUser)
       ELSE UNCHANGED <<user, screen, fetchReqs, appTrips, savedRoutes>>
    /\ UNCHANGED <<sessionOthers>>

\* setUser(null), the setter the store hands to its screens (324), and the effect of the
\* render that follows.
setUser(u) ==
    /\ ~user.isNull
    /\ user' = u
    /\ UserEffect(u)
    /\ UNCHANGED <<screen, sessionOthers>>

\* GET /trips is answered (55-59): setTrips(response.data), or the catch logs.
FetchTripsReply(k, ok, list) ==
    /\ k \in 1..Len(fetchReqs) /\ fetchReqs[k] = "trips"
    /\ fetchReqs' = RemoveAt(fetchReqs, k)
    /\ appTrips' = IF ok THEN list ELSE appTrips
    /\ UNCHANGED <<user, screen, savedRoutes, sessionOthers>>

\* GET /saved-routes is answered (64-68): setSavedRoutes(response.data), or the catch logs.
FetchSavedRoutesReply(k, ok, list) ==
    /\ k \in 1..Len(fetchReqs) /\ fetchReqs[k] = "savedRoutes"
    /\ fetchReqs' = RemoveAt(fetchReqs, k)
    /\ savedRoutes' = IF ok THEN list ELSE savedRoutes
    /\ UNCHANGED <<user, screen, appTrips, sessionOthers>>

\* The store's lists across login and logout: requests are sent by a logged-in user, the
\* replies come when they come.
NextSession ==
    \/ \E ok \in BOOLEAN : LoginReply(ok)
    \/ setUser(NoUser)
    \/ \E k \in 1..MaxFetchReqs, ok \in BOOLEAN, list \in TripLists : FetchTripsReply(k, ok, list)
    \/ \E k \in 1..MaxFetchReqs, ok \in BOOLEAN, list \in RouteLists :
          FetchSavedRoutesReply(k, ok, list)
    \/ \E to \in {"Goa", "Hampi"} : ~user.isNull /\ startNavigation(TripDetails(CL, to, "MH12"))
    \/ ~user.isNull /\ endNavigation
    \/ \E ok \in BOOLEAN : AddTripReply(ok)

\* The store's two lists under the handlers that add to them and remove from them, each
\* answered by the server with success or with an error.
NextStore ==
    \/ startNavigation(TripDetails(CL, "Goa", "MH12"))
    \/ endNavigation
    \/ \E ok \in BOOLEAN : AddTripReply(ok)
    \/ \E i \in 1..Len(appTrips) : removeTrip(appTrips[i].id)
    \/ \E k \in 1..MaxTripDeletes, ok \in BOOLEAN : RemoveTripReply(k, ok)
    \/ \E dest \in {"Fort", "Lake"} : addRoute("Resort", dest)
    \/ \E i \in 1..Len(savedRoutes) : removeRoute(savedRoutes[i].id)
    \/ \E k \in 1..MaxRouteReqs, ok \in BOOLEAN : SavedRouteReply(k, ok)
(***************************************************************************)
(* Map service: calculateDistance, src/unnamed/part_000 197-210 (Haversine)*)
(* and 246-254 (the provider's spherical helper).                          *)
(* The code computes in IEEE doubles.  Here angles are whole degrees on a  *)
(* grid of 15, and a sine or cosine is a number of hundredths: the true    *)
(* value rounded down or up to the grid of representable values.  Which    *)
(* way a result is rounded depends on digits below the precision kept, so  *)
(* the rounding of each table entry is a parameter of a run; it is the     *)
(* same for every call of that run, as Math.sin is one function.           *)
(***************************************************************************)
Unit == 100
NaN == -1
MetresPerDegree == 111195

Lats == {-90, -60, -30, 0, 30, 60, 90}
Lngs == {-180, -90, 0, 90, 180}
Points == [lat : Lats, lng : Lngs]
Grid15 == {0, 15, 30, 45, 60, 75, 90}

\* The angles whose sine is not a whole number of hundredths, the sine rounded down, and
\* the ways Math.sin may round them.
Inexact == {15, 45, 60, 75}
sinFloor(d) == CASE d = 15 -> 25 [] d = 45 -> 70 [] d = 60 -> 86 [] d = 75 -> 96
Roundings == [Inexact -> {0, 1}]

\* Math.sin of an angle of 0..90 degrees
sinQuadrant(d, r) ==
    CASE d = 0 -> 0 [] d = 30 -> 50 [] d = 90 -> Unit [] OTHER -> sinFloor(d) + r[d]

\* Math.sin(x) for x = d degrees, -180 <= d <= 180
sinDeg(d, r) ==
    LET m == IF d < 0 THEN -d ELSE d
        q == sinQuadrant(IF m > 90 THEN 180 - m ELSE m, r)
    IN  IF d < 0 THEN -q ELSE q

\* Math.cos(x) for x = d degrees, -90 <= d <= 90
cosDeg(d, r) == sinDeg(90 - d, r)

\* The largest s in lo..hi with s * s <= n.
RECURSIVE rootBetween(_, _, _)
rootBetween(lo, hi, n) ==
    IF lo >= hi THEN lo
    ELSE LET mid == (lo + hi + 1) \div 2
         IN  IF mid * mid <= n THEN rootBetween(mid, hi, n) ELSE rootBetween(lo, mid - 1, n)

\* Math.sqrt: NaN for a negative number
sqrt(x) == IF x < 0 THEN NaN ELSE rootBetween(0, 2 * Unit * Unit, x)

\* Math.atan2(y, x) in degrees for y, x >= 0, on the grid; NaN when an argument is NaN
atan2Deg(y, x, r) ==
    IF y = NaN \/ x = NaN THEN NaN
    ELSE CHOOSE d \in Grid15 :
            /\ y * cosDeg(d, r) >= x * sinDeg(d, r)
            /\ \A e \in Grid15 : y * cosDeg(e, r) >= x * sinDeg(e, r) => e <= d

\* φ2 - φ1 and λ2 - λ1 (201-202)
delta(from, to) == to - from

\* a of the Haversine formula (204-206), in units of Unit^4
haversineA(lat1, lng1, lat2, lng2, r) ==
    LET sinHalfPhi == sinDeg(delta(lat1, lat2) \div 2, r)
        sinHalfLam == sinDeg(delta(lng1, lng2) \div 2, r)
    IN  sinHalfPhi * sinHalfPhi * Unit * Unit
          + cosDeg(lat1, r) * cosDeg(lat2, r) * sinHalfLam * sinHalfLam

\* R * c with c = 2 * atan2(sqrt(a), sqrt(1 - a)) (207-209), in metres
metres(a, r) ==
    LET one == Unit * Unit * Unit * Unit
        halfAngle == atan2Deg(sqrt(a), sqrt(one - a), r)
    IN  IF halfAngle = NaN THEN NaN ELSE MetresPerDegree * 2 * halfAngle

\* calculateDistance (197-210)
haversineCalculateDistance(lat1, lng1, lat2, lng2, r) ==
    metres(haversineA(lat1, lng1, lat2, lng2, r), r)

\* google.maps.geometry.spherical.computeDistanceBetween: the great-circle distance in
\* metres, which is defined for every pair of points.
computeDistanceBetween(p1, p2, r) ==
    LET one == Unit * Unit * Unit * Unit
        a == haversineA(p1.lat, p1.lng, p2.lat, p2.lng, r)
    IN  metres(IF a > one THEN one ELSE a, r)

\* calculateDistance (246-254)
sdkCalculateDistance(lat1, lng1, lat2, lng2, r) ==
    IF ~googleDefined THEN 0
    ELSE computeDistanceBetween([lat |-> lat1, lng |-> lng1], [lat |-> lat2, lng |-> lng2], r)

\* The implementation a caller has imported.
distanceBy(impl, A, B, r) ==
    IF impl = "sdk" THEN sdkCalculateDistance(A.lat, A.lng, B.lat, B.lng, r)
    ELSE haversineCalculateDistance(A.lat, A.lng, B.lat, B.lng, r)

\* x === y of two numbers: NaN equals nothing
numEq(x, y) == x # NaN /\ y # NaN /\ x = y

NoDistCall == [impl |-> "none", a |-> [lat |-> 0, lng |-> 0], b |-> [lat |-> 0, lng |-> 0],
               ab |-> 0, ba |-> 0, aa |-> 0]

\* A caller measures A to B, B to A and A to A with one implementation.
DistancesMeasured(impl, A, B, r) ==
    /\ distCall = NoDistCall
    /\ distCall' = [impl |-> impl, a |-> A, b |-> B,
                    ab |-> distanceBy(impl, A, B, r),
                    ba |-> distanceBy(impl, B, A, r),
                    aa |-> distanceBy(impl, A, A, r)]
    /\ UNCHANGED <<geoOthers>>

\* The caller is done with the three distances.
DistancesTaken ==
    /\ distCall # NoDistCall
    /\ distCall' = NoDistCall
    /\ UNCHANGED <<geoOthers>>

GeoInit == distCall = NoDistCall

NextGeo ==
    \/ \E impl \in {"haversine", "sdk"}, A \in Points, B \in Points, r \in Roundings :
          DistancesMeasured(impl, A, B, r)
    \/ DistancesTaken
    \/ GoogleScriptLoaded

\* C4 (as the specification states it): at any moment at most one speech-recognition session has
\* been started and has not ended.
C4_OneSessionAtATime == Cardinality(LiveSessions) <= 1

\* C5 (as the specification states it): when one (origin, destination) pair has been toggled twice,
\* no other toggle has been made, every server call has succeeded and every reply has been
\* applied, the set of saved pairs is the one from before the first toggle.
C5_ToggleTwiceRestores ==
    (tgLog.count = 2 /\ ~tgLog.failed /\ ~tgLog.mixed /\ routeReqs = <<>>)
        => PairSet(savedRoutes) = tgLog.before

\* C6 (as the specification states it): a call of getPlacePredictions, of either adapter, with an
\* input shorter than 3 characters has returned the empty sequence and has issued no
\* provider request.
C6_ShortInputNoRequest ==
    (predPhase # "idle" /\ Len(predInput) < MinInputLen)
        => (predPhase = "returned" /\ predSent = 0 /\ predResult = <<>>)

\* C7: the planner leaves state 1 only for state 2 and only with a non-empty destination;
\* a step taken with an empty destination that leaves it empty, as handleDestinationNext
\* does, leaves the planner in state 1.
C7_DestinationBeforeStay ==
    [][(step = 1 /\ step' # 1) => (step' = 2 /\ destination' # "")]_vars

\* C7 witness: handleDestinationNext has moved the planner to state 2 with the
\* destination that was typed.
C7_Witness == step = 2 /\ destination = "Goa" /\ locReq = "none" /\ ~isFetchingLocation

\* The runs of fetchStays in flight at a stage: resolving the destination's coordinates,
\* or searching for lodging.
StaysAt(fetches, stage) ==
    Cardinality({k \in 1..Len(fetches) : fetches[k].for = "stays" /\ fetches[k].stage = stage})

\* C8: a step that changes step, the toggle or the destination into state 2 with the
\* toggle off and a destination to search begins exactly one run of fetchStays, and no
\* other step begins one; every entry into state 2 is such a step; every run makes, once
\* the coordinates are resolved, exactly one search, and that search is for
\* 'hotels and resorts' within 5000 metres.
C8_OneLodgingSearch ==
    [][LET changed == <<step, hasStayPlanned, destination>>' # <<step, hasStayPlanned, destination>>
           wanted == step' = 2 /\ ~hasStayPlanned' /\ destination' \notin {"", CL}
           coords0 == StaysAt(placeFetches, "coords")
           coords1 == StaysAt(placeFetches', "coords")
           search0 == StaysAt(placeFetches, "search")
           search1 == StaysAt(placeFetches', "search")
       IN  /\ (changed /\ wanted) => (coords1 = coords0 + 1 /\ search1 = search0)
           /\ ~(changed /\ wanted) => coords1 <= coords0
           /\ (step # 2 /\ step' = 2) => (~hasStayPlanned' /\ coords1 = coords0 + 1)
           /\ (search1 > search0) => (search1 = search0 + 1 /\ coords1 = coords0 - 1)
           /\ (coords1 < coords0) => (coords1 = coords0 - 1 /\ search1 = search0 + 1)
           /\ \A k \in 1..Len(placeFetches') :
                 (placeFetches'[k].for = "stays" /\ placeFetches'[k].stage = "search")
                     => (placeFetches'[k].keyword = "hotels and resorts" /\ placeFetches'[k].radius = 5000)
      ]_vars

\* C8 witness: the planner is in state 2 with the toggle off and the one run of
\* fetchStays that its entry began has made its one search for lodging.
C8_Witness ==
    /\ step = 2 /\ ~hasStayPlanned /\ isLoadingStays
    /\ placeFetches = <<SearchRequest("stays", TRUE)>>

\* C11 (as the specification states it): the sentinel "Unknown Location" of reverseGeocode is
\* never the planner's destination, never currentTrip.from of the navigation screen and
\* never the origin of a getDirections request.
C11_SentinelNeverAnAddress ==
    /\ destination # UnknownLocation
    /\ tripFrom # UnknownLocation
    /\ lastDirReq.origin.text # UnknownLocation

\* C12 (as the specification states it): the predictions shown for a field are those of the
\* latest request issued for that field.
C12_LatestPredictionsShown ==
    /\ destinationPredictions # <<>> => destinationPredictions[1].for = lastPredQuery.destination
    /\ stayPredictions # <<>> => stayPredictions[1].for = lastPredQuery.stay

\* C13 (as the specification states it): at most one position callback is in progress at any
\* moment; no callback is suspended at its await of reverseGeocode while another is.
C13_OneCallbackAtATime == Len(pendingPos) <= 1

\* C14 (as the specification states it): the step that takes the planner from state 3 to state 1
\* sets the screen to Home and leaves the destination, the toggle, the stay location, the
\* selected stay and the attraction list at their initial values.
C14_CompleteResetsPlanner ==
    [][(step = 3 /\ step' = 1)
       => /\ screen' = "Home"
          /\ destination' = "" /\ ~hasStayPlanned' /\ stayLocation' = ""
          /\ selectedStayId' = "none" /\ nearbyAttractions' = <<>>]_vars

\* C15: with the destination 'Current Location', a step that sets locationError leaves the
\* planner in state 1 with isFetchingLocation cleared, and the error stays up only in
\* that condition; the retry starts the resolution again (or fails again at once when
\* geolocation is unsupported); and the planner reaches state 2 from 'Current Location'
\* only in the step in which reverseGeocode has answered with an address.
C15_LocationFailureStaysInStateOne ==
    [][/\ (locationError' # "none")
           => (step' = 1 /\ ~isFetchingLocation' /\ locReq' = "none")
       /\ (locReq # "none" /\ locReq' = "none" /\ step' # 2)
           => (step' = 1 /\ locationError' # "none" /\ ~isFetchingLocation')
       /\ (locationError # "none" /\ locationError' = "none" /\ destination = CL /\ destination' = CL)
           => (step' = 1 /\ locReq' = "position" /\ isFetchingLocation')
       /\ (step = 1 /\ step' = 2 /\ destination = CL)
           => /\ locReq = "geocode" /\ locReq' = "none"
              /\ destination' \notin {"", CL, UnknownLocation}
              /\ locationError' = "none" /\ ~isFetchingLocation']_vars

\* C15 witness: the resolution of 'Current Location' has failed with a denied permission:
\* the planner is in state 1, the error is shown and nothing is being fetched.
C15_Witness ==
    /\ step = 1 /\ destination = CL /\ locationError = "denied"
    /\ ~isFetchingLocation /\ locReq = "none"

\* C16: the planner leaves state 2 only for state 3, and only in a step that begins with
\* the toggle on and a non-empty stayLocation or with the toggle off and a stay selected;
\* the step leaves these as they were.
C16_StayBeforeAttractions ==
    [][(step = 2 /\ step' # 2)
       => /\ step' = 3
          /\ \/ hasStayPlanned /\ stayLocation # ""
             \/ ~hasStayPlanned /\ selectedStayId # "none"
          /\ UNCHANGED <<hasStayPlanned, stayLocation, selectedStayId>>]_vars

\* C16 witness: handleStayInfoNext has moved the planner to state 3 with the toggle off
\* and the stay that was selected from the list.
C16_Witness == step = 3 /\ ~hasStayPlanned /\ selectedStayId = "Hotel" /\ Has(stays, "Hotel")

\* C17: the response of getTrips holds exactly the stored trips whose userId is the
\* caller's id, each once, in descending order of creation time.
C17_OwnTripsNewestFirst ==
    [][(tripList' # tripList /\ tripList' # NoTripList)
       => LET r == tripList'
          IN  /\ {r.list[k] : k \in 1..Len(r.list)}
                    = {i \in TripIds : trips[i] # NoTrip /\ trips[i].userId = r.caller}
              /\ \A j, k \in 1..Len(r.list) : j < k => createdAt(r.list[j]) > createdAt(r.list[k])]_vars

\* C17 witness: a caller with two trips is answered with both, the newer one first,
\* while the trip created between them, owned by another user, is left out.
C17_Witness ==
    /\ tripList # NoTripList /\ tripList.list = <<3, 1>>
    /\ trips[2] # NoTrip /\ trips[2].userId # tripList.caller

\* C18: no call of the map service is rejected, whatever the provider answers and
\* whether or not the SDK is loaded; and every settled call of an operation the screens
\* import (the SDK adapter's) has resolved to the operation's normalized result or to
\* its fallback: [], null or "Unknown Location".
C18_AdapterNeverRejects ==
    \A k \in 1..Len(adapterCalls) :
        LET c == adapterCalls[k]
        IN  /\ c.state \in {"awaiting", "resolved"}
            /\ (c.state = "resolved" /\ c.impl = "sdk")
                   => c.value \in {Normalized(c.op), Fallback(c.op)}

\* C18 witness: the SDK has answered getDirections with an error status and the call
\* has resolved to null, while another call made before the SDK was loaded has
\* resolved to its fallback.
C18_Witness ==
    /\ Len(adapterCalls) = 2
    /\ adapterCalls[1].impl = "sdk" /\ adapterCalls[1].outcome = NoOutcome
    /\ adapterCalls[1].state = "resolved" /\ adapterCalls[1].value = Fallback(adapterCalls[1].op)
    /\ adapterCalls[2].op = "getDirections" /\ adapterCalls[2].outcome.status = "ERROR"
    /\ adapterCalls[2].state = "resolved" /\ adapterCalls[2].value = "null"

\* C19 (as the specification states it): no step changes a field other than the status of a
\* stored trip whose status is 'completed' (of the fields the model follows, the origin).
C19_CompletedTripImmutable ==
    [][\A i \in TripIds :
        (trips[i] # NoTrip /\ trips[i].status = "completed" /\ trips'[i] # NoTrip)
            => trips'[i].origin = trips[i].origin]_vars


\* The ids of a collection of vehicles are pairwise distinct.
idsDistinct(list) == \A i, j \in 1..Len(list) : i # j => list[i].id # list[j].id

\* C20: after any sequence of signup completion, addVehicle, updateVehicle and
\* removeVehicle, the vehicle ids within the user's twoWheelers are pairwise distinct, and
\* likewise within fourWheelers.
C20_VehicleIdsDistinct ==
    ~user.isNull => idsDistinct(user.twoWheelers) /\ idsDistinct(user.fourWheelers)

(***************************************************************************)
(* Claims C21 to C30.                                                      *)
(***************************************************************************)

\* C21: the client's saved-route list holds at most one route per (origin, destination)
\* pair, after any sequence of planner toggles and server replies.
C21_OneRoutePerPair ==
    \A i, j \in 1..Len(savedRoutes) :
        (savedRoutes[i].origin = savedRoutes[j].origin
            /\ savedRoutes[i].destination = savedRoutes[j].destination) => i = j

\* What the two screens render of their error states.
\* {mapError && mapError.type !== 'permission' && (...)} (892-900)
mapErrorShown == mapError # "none" /\ mapError # "permission"
\* {locationError && <GeolocationPermissionError onRetry onCancel />} of step 1 (487-500)
locationErrorShown == step = 1 /\ locationError # "none"
\* {micPermissionError && <MicrophonePermissionError onRetry onCancel />} of steps 2 and 1
\* (427-433, 501-507)
micErrorShown == step \in {1, 2} /\ micPermissionError # "none"

\* C22: a step that records a denial (getCurrentPosition or getUserMedia in the planner,
\* watchPosition error code 1 in navigation) leaves the screen presenting that error state.
C22_DenialPresented ==
    [][/\ (locationError' = "denied" /\ locationError # "denied") => locationErrorShown'
       /\ (micPermissionError' = "denied" /\ micPermissionError # "denied") => micErrorShown'
       /\ (mapError' = "permission" /\ mapError # "permission") => mapErrorShown']_vars

\* C23: calculateDistance is symmetric and zero on identical points: for all coordinate
\* pairs A and B, calculateDistance(A, B) equals calculateDistance(B, A), and
\* calculateDistance(A, A) equals 0.
C23_DistanceSymmetricAndZero ==
    distCall # NoDistCall => numEq(distCall.ab, distCall.ba) /\ numEq(distCall.aa, 0)

\* C24: for each autocomplete field, every change of the input cancels the pending timer:
\* a pending timer of a field is the one set for the current input, and the fetch a timer
\* issues when it fires is the fetch for the input as it is then, never for a superseded
\* value.
C24_FetchOnlySettledInput ==
    [][/\ destTimer'.on => /\ destTimer'.dest = destination'
                           /\ destTimer'.active = activePlannerInput'
       /\ stayTimer'.on => /\ stayTimer'.stay = stayLocation'
                           /\ stayTimer'.dest = destination'
                           /\ stayTimer'.active = activePlannerInput'
       /\ Len(predFetches') > Len(predFetches) =>
            LET fetch == predFetches'[Len(predFetches')]
            IN  fetch.query = predictionQuery(fetch.field,
                    DebounceTimer(activePlannerInput, destination, stayLocation))]_vars

\* A fetch for "Goal" is awaited and nothing was fetched for the values typed before it.
C24_Witness ==
    /\ destination = "Goal" /\ ~destTimer.on
    /\ predFetches = <<[field |-> "destination", query |-> "Goal"]>>
    /\ lastPredQuery.destination = "Goal"

\* C25: at most one geolocation watch registered by NavigationScreen is active at any
\* time, it is the one locationWatcherId.current names, and none remains active after the
\* screen has unmounted.
C25_OneWatchAtATime ==
    /\ Cardinality(watchIds) <= 1
    /\ navPhase = "mounted" => watchIds = {locationWatcherId}
    /\ navPhase = "unmounted" => watchIds = {}

\* The watch has been registered again after the user dragged the map: the callback of
\* the one active watch closes over auto-centering off.
C25_Witness ==
    /\ navPhase = "mounted" /\ ~isAutoCentering /\ watch # NoWatch /\ ~watch.auto
    /\ watchIds = {locationWatcherId} /\ locationWatcherId # 0

\* The recenter control is on screen: the map is rendered (755) with auto-centering off
\* (901-905).
recenterShown == navPhase = "mounted" /\ isLoaded /\ ~isAutoCentering
\* The test of recenterMap (580): if (mapRef.current && userLocation)
recenterTakesEffect == mapRef /\ userLocation # NoPos

\* C26: while auto-centering is on, a position update pans the camera of the map to
\* the new position; while auto-centering is off and stays off, no step moves the camera;
\* and the recenter control, whenever it is shown, turns auto-centering on when it is
\* used.
C26_CameraFollowsUntilDrag ==
    [][/\ (isAutoCentering /\ mapRef /\ navPhase' = "mounted" /\ userLocation' # userLocation)
            => camera' = userLocation'
       /\ (~isAutoCentering /\ ~isAutoCentering') => camera' = camera
       /\ recenterShown => recenterTakesEffect]_vars

\* C27: a trip-creation request is issued only by ending a navigation that has a context,
\* one request built from that context (from, to, vehicle); ending leaves the store with
\* isNavigating false, currentTripDetails null and navigationOrigin 'Current Location';
\* a step that leaves the context absent issues no request.
C27_EndNavigationCreatesOneTrip ==
    [][/\ Len(tripPosts') > Len(tripPosts) =>
            /\ ~currentTripDetails.isNull
            /\ tripPosts' = Append(tripPosts, [origin |-> currentTripDetails.from,
                                               destination |-> currentTripDetails.to,
                                               vehicle |-> currentTripDetails.vehicleNumber])
       /\ (~currentTripDetails.isNull /\ currentTripDetails'.isNull) =>
            /\ Len(tripPosts') = Len(tripPosts) + 1
            /\ ~isNavigating' /\ navigationOrigin' = CL
       /\ (currentTripDetails.isNull /\ currentTripDetails'.isNull) =>
            Len(tripPosts') <= Len(tripPosts)]_vars

\* A navigation from Pune to Goa started from a saved route has been ended: its request
\* is awaited and the origin is back at 'Current Location'.
C27_Witness ==
    /\ tripPosts = <<[origin |-> "Pune", destination |-> "Goa", vehicle |-> "MH12"]>>
    /\ currentTripDetails = NoDetails /\ ~isNavigating /\ navigationOrigin = CL
    /\ navigationDestination = ""

\* C28: the waypoint sequence changes only by a stop selection appending one waypoint
\* with stopover true at the end, the earlier waypoints kept in their order, or by the
\* remove action emptying the whole sequence; no step reorders the waypoints or removes
\* a single one.
C28_WaypointsAppendOrEmpty ==
    [][waypoints' # waypoints =>
          \/ /\ Len(waypoints') = Len(waypoints) + 1
             /\ SubSeq(waypoints', 1, Len(waypoints)) = waypoints
             /\ waypoints'[Len(waypoints')].stopover = TRUE
          \/ waypoints' = <<>>]_vars

\* Two places chosen in the add-stop search have both become waypoints, in the order
\* their details arrived.
C28_Witness ==
    /\ Len(waypoints) = 2 /\ waypoints[1].location # waypoints[2].location
    /\ waypoints[1].stopover /\ waypoints[2].stopover
    /\ pendingPlaces = <<>>

\* C29: the candidates that a category search presents are exactly the places that the
\* nearby search returned, each with its distance from the position of the user that the
\* search was made at, in non-decreasing order of that distance.
C29_CandidatesSortedByDistance ==
    [][(~stopSearchResults'.isNull /\ stopSearchResults' # stopSearchResults) =>
          LET items == stopSearchResults'.items
              count(q, p) == Cardinality({i \in 1..Len(q) : q[i] = p})
              shown == [i \in 1..Len(items) |-> items[i].place]
          IN /\ Len(items) = Len(nearbyResults')
             /\ \A p \in Places : count(shown, p) = count(nearbyResults', p)
             /\ \E k \in 1..Len(pendingPlaces) :
                   /\ pendingPlaces[k].kind = "nearby"
                   /\ pendingPlaces[k].at # NoPos
                   /\ \A i \in 1..Len(items) :
                         items[i].distance =
                             calculateDistance(pendingPlaces[k].at, 0, PlaceLat[items[i].place], 0)
             /\ \A i \in 1..(Len(items) - 1) : items[i].distance <= items[i + 1].distance]_vars

\* The provider returned fuelA before fuelB; the list shows fuelB, at the user's position,
\* before fuelA, 40 metres away.
C29_Witness ==
    /\ nearbyResults = <<"fuelA", "fuelB">>
    /\ stopSearchResults = Results(<<[place |-> "fuelB", distance |-> 0],
                                     [place |-> "fuelA", distance |-> 40]>>)
    /\ isStopsListVisible /\ ~isCalculatingStops

\* C30: whenever the navigation screen holds a route, currentStepIndex is an index into
\* the steps of the first leg of that route: 0 <= currentStepIndex < steps.length.
C30_StepIndexWithinRoute ==
    directions # NullDirections =>
        (0 <= currentStepIndex /\ currentStepIndex < Len(directions.steps))


\* C31: the owner of a trip never changes: a trip that is stored before and after a step
\* of createTrip, updateTrip or deleteTrip has the userId it had, whatever the body of
\* the request holds.
C31_OwnerNeverChanges ==
    [][\A id \in TripIds :
          (trips[id] # NoTrip /\ trips'[id] # NoTrip) => trips'[id].userId = trips[id].userId]_vars

\* C32: the route shown is never replaced by the result of an older directions request:
\* a reply that arrives after the reply to a request issued later leaves the route of
\* the later request in place, so that with no request outstanding the route shown
\* belongs to the request for the current origin, destination and waypoints.
C32_LateReplyNeverReplacesNewer ==
    [][directions'.ver >= directions.ver]_vars

\* C33: with no user logged in and no request of the store outstanding, the store's
\* trips list and saved-routes list are empty: a reply that arrives after the user became
\* null does not fill them again.
C33_LoggedOutListsEmpty ==
    (user.isNull /\ fetchReqs = <<>> /\ tripPosts = <<>> /\ routeReqs = <<>>)
        => (appTrips = <<>> /\ savedRoutes = <<>>)

\* C34: the planner's step is 1, 2 or 3 and changes only from 1 to 2, from 2 to 3 and
\* from 3 to 1: no step leads from 1 to 3, from 2 to 1 or from 3 to 2.
C34_StepCycle ==
    [][/\ step \in {1, 2, 3} /\ step' \in {1, 2, 3}
       /\ step' # step => <<step, step'>> \in {<<1, 2>>, <<2, 3>>, <<3, 1>>}]_vars

\* The planner has been completed once (the screen went to Home) and a second plan has
\* reached the stay selection.
C34_Witness == step = 2 /\ screen = "Home" /\ destination = "Goa"

\* C35: whenever the planner is in state 3, the stay name that saved routes take as
\* their origin is defined and not empty: with the toggle on it is the stay typed, with
\* the toggle off selectedStayId names a stay of the current stays list.
C35_StayNameDefinedInStateThree ==
    step = 3 => stayName # ""

\* C36: in the store, isNavigating is true exactly when currentTripDetails is not null.
C36_NavigatingIffContext ==
    isNavigating <=> ~currentTripDetails.isNull

\* A navigation has been ended (its trip is being posted) and another one is under way.
C36_Witness ==
    /\ isNavigating /\ currentTripDetails = TripDetails(CL, "Hampi", "KA01")
    /\ Len(tripPosts) = 1

\* C37: when the server refuses a request of addRoute, removeRoute, addTrip or
\* removeTrip (the catch alerts), the trips list and the saved-routes list stay as they
\* were; a list changes only in the step that answers one of its requests with success:
\* an add puts the created item first, a remove takes out exactly the items with the id
\* the request names.
C37_ListsChangeOnlyOnSuccess ==
    [][/\ alerts' # alerts => (appTrips' = appTrips /\ savedRoutes' = savedRoutes)
       /\ savedRoutes' # savedRoutes =>
             \E k \in 1..Len(routeReqs) :
                /\ routeReqs' = RemoveAt(routeReqs, k)
                /\ IF routeReqs[k].op = "add"
                   THEN /\ Len(savedRoutes') = Len(savedRoutes) + 1
                        /\ Tail(savedRoutes') = savedRoutes
                        /\ Head(savedRoutes').origin = routeReqs[k].origin
                        /\ Head(savedRoutes').destination = routeReqs[k].dest
                   ELSE savedRoutes' = SelectSeq(savedRoutes, LAMBDA r : r.id # routeReqs[k].id)
       /\ appTrips' # appTrips =>
             \/ /\ tripPosts # <<>> /\ tripPosts' = Tail(tripPosts)
                /\ Len(appTrips') = Len(appTrips) + 1
                /\ Tail(appTrips') = appTrips
                /\ Head(appTrips').from = Head(tripPosts).origin
                /\ Head(appTrips').to = Head(tripPosts).destination
             \/ \E k \in 1..Len(tripDeletes) :
                   /\ tripDeletes' = RemoveAt(tripDeletes, k)
                   /\ appTrips' = SelectSeq(appTrips, LAMBDA t : t.id # tripDeletes[k])]_vars

\* Of two saved routes and two trips the older route and the older trip have been
\* removed, and two requests have been refused on the way.
C37_Witness ==
    /\ Len(savedRoutes) = 1 /\ savedRoutes[1].id = 2
    /\ Len(appTrips) = 1 /\ appTrips[1].id = 2
    /\ alerts = 2 /\ routeReqs = <<>> /\ tripPosts = <<>> /\ tripDeletes = <<>>
(***************************************************************************)
(* The initial state and the specifications, one per component.            *)
(***************************************************************************)

Init ==
    TripsInit /\ NavInit /\ PlannerInit /\ PredictionsInit /\ AccountInit /\ GeoInit

NextTrips ==
    \/ \E u \in Users : nextTripId <= MaxTrips /\ createTrip(u, "Pune")
    \/ \E c \in Conns, u \in Users, i \in TripIds, b \in Bodies : updateTrip(c, u, i, b)
    \/ \E c \in Conns, u \in Users, i \in TripIds : deleteTrip(c, u, i)
    \/ \E c \in Conns : updateTripWrite(c)
    \/ \E c \in Conns : deleteTripWrite(c)

\* The trips of all users as getTrips lists them, while one connection updates and
\* deletes.
NextTripList ==
    \/ \E u \in Users : createTrip(u, "Pune")
    \/ \E u \in Users : getTrips(u)
    \/ TripListSent
    \/ \E u \in Users, i \in TripIds, b \in Bodies : updateTrip("c1", u, i, b)
    \/ \E u \in Users, i \in TripIds : deleteTrip("c1", u, i)
    \/ updateTripWrite("c1")
    \/ deleteTripWrite("c1")

SpecTrips == Init /\ [][NextTrips]_vars

SpecTripList == Init /\ [][NextTripList]_vars

SpecNav == Init /\ [][NextNav]_vars

SpecStops == Init /\ [][NextStops]_vars

SpecSearch == Init /\ [][NextSearch]_vars

SpecPlanner == Init /\ [][NextPlanner]_vars

SpecVoice == Init /\ [][NextVoice]_vars

SpecRoutes == Init /\ [][NextRoutes]_vars

SpecSuggest == Init /\ [][NextSuggest]_vars

SpecAdapter == Init /\ [][NextAdapter]_vars

SpecPredictions == Init /\ [][NextPredictions]_vars

SpecAccount == Init /\ [][NextAccount]_vars

SpecGeo == Init /\ [][NextGeo]_vars

SpecJourney == Init /\ [][NextJourney]_vars

SpecWaypoints == Init /\ [][NextWaypoints]_vars

SpecSession == Init /\ [][NextSession]_vars

SpecStore == Init /\ [][NextStore]_vars
====